---- MODULE Spec2Model ----
(***************************************************************************)
(* Validator duties scheduler of the validator client                      *)
(* (validator_client/src/duties_service.rs): the DutiesStore, a two-level  *)
(* cache pubkey -> epoch -> DutyAndProof, with its insertion outcomes and  *)
(* pruning, and the DutiesService that fills it from the beacon node.      *)
(***************************************************************************)
EXTENDS Integers, Sequences, FiniteSets, TLC

(***************************************************************************)
(* Bounds of the model.                                                    *)
(***************************************************************************)
\* Validators are numbered 1..MaxPubkey; the number stands for the BLS key.
MaxPubkey == 2
\* Epochs 0..MaxEpoch are polled and pruned.
MaxEpoch == 1
\* Number of insert calls of one run of the store-level specification.
MaxInserts == 2
\* Number of remote duties the beacon node returns in one run of the
\* update_epoch specification.
MaxRemote == 2

\* E::slots_per_epoch()
SlotsPerEpoch == 2
\* Number of do_update calls in one run of the do_update specification.
MaxTicks == 2

\* const PRUNE_DEPTH: u64 = 4
PRUNE_DEPTH == 4

(***************************************************************************)
(* Option<T>: None is the empty sequence, Some(x) the one-element one.     *)
(***************************************************************************)
None == << >>
Some(x) == << x >>
IsSome(o) == o # None
Unwrap(o) == o[1]

Pubkeys == 1 .. MaxPubkey
Epochs == 0 .. MaxEpoch

\* Slot::epoch(slots_per_epoch)
EpochOf(slot) == slot \div SlotsPerEpoch
\* Epoch::start_slot(slots_per_epoch)
StartSlot(epoch) == epoch * SlotsPerEpoch

(***************************************************************************)
(* ValidatorStore (consumed interface).                                    *)
(***************************************************************************)
\* ValidatorStore::voting_pubkeys: the keys held locally.
voting_pubkeys == Pubkeys

\* ValidatorStore::produce_selection_proof: the signature of `slot` by
\* `pubkey`, None for a key the store does not hold.
produce_selection_proof(pubkey, slot) ==
    IF pubkey \in voting_pubkeys THEN Some([signer |-> pubkey, slot |-> slot])
    ELSE None

\* The integer read from the hash of the proof's signature.
SignatureHash(proof) == proof.signer + proof.slot

\* SelectionProof::is_aggregator_from_modulo: hash mod modulo == 0, an
\* arithmetic error for modulo 0.
is_aggregator_from_modulo(proof, modulo) ==
    IF modulo = 0 THEN [ok |-> FALSE, value |-> FALSE]
    ELSE [ok |-> TRUE, value |-> (SignatureHash(proof) % modulo = 0)]

(***************************************************************************)
(* DutyAndProof                                                            *)
(***************************************************************************)
\* A slip: whoever gets a proof from the validator store keeps it.
compute_selection_proof_keeps_proof(dp) ==
    IF ~(IsSome(dp.duty.aggregator_modulo) /\ IsSome(dp.duty.attestation_slot))
    THEN [ok |-> TRUE, dp |-> [dp EXCEPT !.selection_proof = None], asked |-> FALSE]
    ELSE LET modulo == Unwrap(dp.duty.aggregator_modulo)
             slot == Unwrap(dp.duty.attestation_slot)
             selection_proof == produce_selection_proof(dp.duty.validator_pubkey, slot)
         IN  IF selection_proof = None
             THEN [ok |-> FALSE, dp |-> dp, asked |-> TRUE]
             ELSE LET r == is_aggregator_from_modulo(Unwrap(selection_proof), modulo)
                  IN  IF ~r.ok
                      THEN [ok |-> FALSE, dp |-> dp, asked |-> TRUE]
                      ELSE [ok |-> TRUE,
                            dp |-> [dp EXCEPT !.selection_proof = selection_proof],
                            asked |-> TRUE]

\* DutyAndProof::compute_selection_proof.  `asked` tells whether the
\* validator store was consulted.
compute_selection_proof(dp) ==
    IF ~(IsSome(dp.duty.aggregator_modulo) /\ IsSome(dp.duty.attestation_slot))
    THEN [ok |-> TRUE, dp |-> [dp EXCEPT !.selection_proof = None], asked |-> FALSE]
    ELSE LET modulo == Unwrap(dp.duty.aggregator_modulo)
             slot == Unwrap(dp.duty.attestation_slot)
             selection_proof == produce_selection_proof(dp.duty.validator_pubkey, slot)
         IN  IF selection_proof = None
             THEN [ok |-> FALSE, dp |-> dp, asked |-> TRUE]
             ELSE LET r == is_aggregator_from_modulo(Unwrap(selection_proof), modulo)
                  IN  IF ~r.ok
                      THEN [ok |-> FALSE, dp |-> dp, asked |-> TRUE]
                      ELSE [ok |-> TRUE,
                            dp |-> [dp EXCEPT !.selection_proof =
                                        IF r.value THEN selection_proof ELSE None],
                            asked |-> TRUE]

\* A slip: the validator index is left out of the comparison.
subscription_eq_without_index(a, b) ==
    /\ a.duty.aggregator_modulo = b.duty.aggregator_modulo
    /\ a.duty.attestation_slot = b.duty.attestation_slot
    /\ a.duty.attestation_committee_index = b.duty.attestation_committee_index

\* DutyAndProof::selection_proof_eq
selection_proof_eq(a, b) ==
    /\ a.duty.aggregator_modulo = b.duty.aggregator_modulo
    /\ a.duty.attestation_slot = b.duty.attestation_slot

\* DutyAndProof::subscription_eq
subscription_eq(a, b) ==
    /\ selection_proof_eq(a, b)
    /\ a.duty.validator_index = b.duty.validator_index
    /\ a.duty.attestation_committee_index = b.duty.attestation_committee_index
    /\ a.duty.attestation_slot = b.duty.attestation_slot

\* A slip: the block proposal slots are not looked at.
duties_match_epoch_attestation_only(duty, epoch) ==
    duty.attestation_slot = None \/ EpochOf(Unwrap(duty.attestation_slot)) = epoch

\* A slip: the attestation slot is not looked at.
duties_match_epoch_proposals_only(duty, epoch) ==
    \A i \in 1 .. Len(duty.block_proposal_slots) :
        EpochOf(duty.block_proposal_slots[i]) = epoch

\* fn duties_match_epoch
duties_match_epoch(duty, epoch) ==
    /\ (duty.attestation_slot = None \/ EpochOf(Unwrap(duty.attestation_slot)) = epoch)
    /\ \A i \in 1 .. Len(duty.block_proposal_slots) :
           EpochOf(duty.block_proposal_slots[i]) = epoch

(***************************************************************************)
(* InsertOutcome                                                           *)
(***************************************************************************)
NewValidator == [tag |-> "NewValidator"]
NewEpoch == [tag |-> "NewEpoch"]
Identical == [tag |-> "Identical"]
Replaced(should_resubscribe) ==
    [tag |-> "Replaced", should_resubscribe |-> should_resubscribe]
Invalid == [tag |-> "Invalid"]
\* The Err(String) of a Result<InsertOutcome, String>.
Err == [tag |-> "Err"]

\* A slip: every replacement is a candidate.
is_subscription_candidate_any_replaced(outcome) ==
    outcome.tag \in {"Replaced", "NewValidator", "NewEpoch"}

\* InsertOutcome::is_subscription_candidate
is_subscription_candidate(outcome) ==
    CASE outcome.tag = "Replaced" -> outcome.should_resubscribe
      [] outcome.tag = "NewValidator" -> TRUE
      [] outcome.tag = "NewEpoch" -> TRUE
      [] outcome.tag = "Identical" -> FALSE
      [] outcome.tag = "Invalid" -> FALSE

(***************************************************************************)
(* DutiesStore: a function from the pubkeys present to functions from the  *)
(* epochs present to DutyAndProof.                                         *)
(***************************************************************************)
EmptyMap == [x \in {} |-> x]

\* A slip: the map is built anew around the one entry.
MapInsert_fresh(map, key, value) == [k \in {key} |-> value]

\* HashMap::insert(key, value)
MapInsert(map, key, value) ==
    [k \in DOMAIN map \cup {key} |-> IF k = key THEN value ELSE map[k]]

\* A slip: the duty is replaced, the stored selection proof is kept.
replace_known_keep_proof(known_duties, duties) ==
    [known_duties EXCEPT !.duty = duties.duty]

\* `*known_duties = duties` of DutiesStore::insert
replace_known(known_duties, duties) == duties

\* A refactoring slip: the whole DutyAndProof is compared, proof included.
same_duty_with_proof(known_duties, duties) == known_duties = duties

\* `known_duties.duty == duties.duty` of DutiesStore::insert
same_duty(known_duties, duties) == known_duties.duty = duties.duty

\* A slip: a known validator without the epoch gets a new inner map and is
\* reported as a new validator.
insert_new_map(store, epoch, duties) ==
    LET pubkey == duties.duty.validator_pubkey
        computed == compute_selection_proof(duties)
        failed == [store |-> store, outcome |-> Err, asked |-> computed.asked]
    IN  IF ~duties_match_epoch(duties.duty, epoch)
        THEN [store |-> store, outcome |-> Invalid, asked |-> FALSE]
        ELSE IF pubkey \in DOMAIN store /\ epoch \in DOMAIN store[pubkey]
        THEN LET known_duties == store[pubkey][epoch]
             IN  IF same_duty(known_duties, duties)
                 THEN [store |-> store, outcome |-> Identical, asked |-> FALSE]
                 ELSE IF ~computed.ok THEN failed
                 ELSE [store |-> [store EXCEPT ![pubkey][epoch] = computed.dp],
                       outcome |-> Replaced(subscription_eq(computed.dp, known_duties)),
                       asked |-> computed.asked]
        ELSE IF ~computed.ok THEN failed
             ELSE [store |-> MapInsert(store, pubkey, MapInsert(EmptyMap, epoch, computed.dp)),
                   outcome |-> NewValidator,
                   asked |-> computed.asked]

\* DutiesStore::insert.  Returns the store after the call, the result and
\* whether the validator store was asked for a selection proof.
insert(store, epoch, duties) ==
    LET pubkey == duties.duty.validator_pubkey
        computed == compute_selection_proof(duties)
        failed == [store |-> store, outcome |-> Err, asked |-> computed.asked]
    IN  IF ~duties_match_epoch(duties.duty, epoch)
        THEN [store |-> store, outcome |-> Invalid, asked |-> FALSE]
        ELSE IF pubkey \in DOMAIN store
        THEN IF epoch \in DOMAIN store[pubkey]
             THEN LET known_duties == store[pubkey][epoch]
                  IN  IF same_duty(known_duties, duties)
                      THEN [store |-> store, outcome |-> Identical, asked |-> FALSE]
                      ELSE IF ~computed.ok THEN failed
                      ELSE [store |-> [store EXCEPT ![pubkey][epoch] =
                                           replace_known(known_duties, computed.dp)],
                            outcome |-> Replaced(subscription_eq(computed.dp, known_duties)),
                            asked |-> computed.asked]
             ELSE IF ~computed.ok THEN failed
                  ELSE [store |-> [store EXCEPT ![pubkey] =
                                       MapInsert(store[pubkey], epoch, computed.dp)],
                        outcome |-> NewEpoch,
                        asked |-> computed.asked]
        ELSE IF ~computed.ok THEN failed
             ELSE [store |-> MapInsert(store, pubkey, MapInsert(EmptyMap, epoch, computed.dp)),
                   outcome |-> NewValidator,
                   asked |-> computed.asked]

\* A slip: the epoch `prior_to` itself is dropped too.
RetainEpochs_after(validator_map, prior_to) ==
    [e \in {x \in DOMAIN validator_map : x > prior_to} |-> validator_map[e]]

\* HashMap::retain(|epoch, _| *epoch >= prior_to)
RetainEpochs(validator_map, prior_to) ==
    [e \in {x \in DOMAIN validator_map : x >= prior_to} |-> validator_map[e]]

\* A slip: validators left without an epoch are kept.
prune_keep_empty(store, prior_to) ==
    [p \in DOMAIN store |-> RetainEpochs(store[p], prior_to)]

\* DutiesStore::prune
prune(store, prior_to) ==
    [p \in {q \in DOMAIN store : RetainEpochs(store[q], prior_to) # EmptyMap}
        |-> RetainEpochs(store[p], prior_to)]

(***************************************************************************)
(* The duties a beacon node may return.                                    *)
(***************************************************************************)
\* The duty of validator `pubkey` in `epoch`: attests in the first slot of
\* the epoch, always an aggregator (modulo 1), proposes nothing.
BaseDuty(pubkey, epoch) ==
    [validator_pubkey |-> pubkey,
     validator_index |-> Some(pubkey),
     attestation_slot |-> Some(StartSlot(epoch)),
     attestation_committee_index |-> Some(0),
     attestation_committee_position |-> Some(0),
     block_proposal_slots |-> << >>,
     aggregator_modulo |-> Some(1)]

\* The slots a duty for `epoch` may name: those of the epoch and the first
\* one of the next epoch (a duty of the wrong epoch).
SlotsNear(epoch) == StartSlot(epoch) .. StartSlot(epoch + 1)

\* The base duty and every duty that differs from it in one field.
OneFieldChanged(b, epoch) ==
    {b}
    \cup {[b EXCEPT !.validator_index = None]}
    \cup {[b EXCEPT !.attestation_committee_index = None]}
    \cup {[b EXCEPT !.attestation_committee_position = None]}
    \cup {[b EXCEPT !.attestation_slot = s] :
             s \in {None} \cup {Some(t) : t \in SlotsNear(epoch)}}
    \cup {[b EXCEPT !.block_proposal_slots = << t >>] :
             t \in {StartSlot(epoch), StartSlot(epoch + 1)}}
    \cup {[b EXCEPT !.aggregator_modulo = m] : m \in {None, Some(0), Some(2)}}

\* The base duty, the one with another committee position, the one with
\* the next attestation slot and the one that proposes a block.
PositionOrSlotChanged(b, epoch) ==
    {b}
    \cup {[b EXCEPT !.attestation_committee_position = None]}
    \cup {[b EXCEPT !.attestation_slot = Some(StartSlot(epoch) + 1)]}
    \cup {[b EXCEPT !.block_proposal_slots = << StartSlot(epoch) >>]}

\* The duties the beacon node may return for `pubkey` in `epoch`: those of the
\* first validator vary in every field, those of the others in committee
\* position and attestation slot.
DutiesFor(pubkey, epoch) ==
    IF pubkey = 1
    THEN OneFieldChanged(BaseDuty(pubkey, epoch), epoch)
    ELSE PositionOrSlotChanged(BaseDuty(pubkey, epoch), epoch)

RemoteDuties(epoch) == UNION {DutiesFor(p, epoch) : p \in Pubkeys}

\* DutyAndProof { duty, selection_proof: None }
ToDutyAndProof(duty) == [duty |-> duty, selection_proof |-> None]

\* Pubkey bytes that are no point of the curve.
BadPubkeyBytes == 0

\* A ValidatorDutyBytes whose pubkey bytes do not decode.
BadRemoteDuty(epoch) == [BaseDuty(1, epoch) EXCEPT !.validator_pubkey = BadPubkeyBytes]

\* A key that decodes and that the validator store does not hold.
UnknownPubkey == MaxPubkey + 1

\* The duties returned for the unknown key: one that needs a selection
\* proof, and one that does not (no aggregator_modulo).
UnknownRemoteDuties(epoch) ==
    {BaseDuty(UnknownPubkey, epoch),
     [BaseDuty(UnknownPubkey, epoch) EXCEPT !.aggregator_modulo = None]}

\* What get_duties(epoch, pubkeys) may return for one validator.
RemoteDutyBytes(epoch) ==
    RemoteDuties(epoch) \cup {BadRemoteDuty(epoch)} \cup UnknownRemoteDuties(epoch)

\* (&PublicKeyBytes).try_into(): the key, None for bytes that do not decode.
DecodePubkey(bytes) == IF bytes # BadPubkeyBytes THEN Some(bytes) ELSE None

\* TryInto<DutyAndProof> for ValidatorDutyBytes
try_into(remote_duties) ==
    LET pubkey == DecodePubkey(remote_duties.validator_pubkey)
    IN  IF pubkey = None
        THEN [ok |-> FALSE]
        ELSE [ok |-> TRUE,
              dp |-> ToDutyAndProof(
                        [validator_pubkey |-> Unwrap(pubkey),
                         validator_index |-> remote_duties.validator_index,
                         attestation_slot |-> remote_duties.attestation_slot,
                         attestation_committee_index |->
                             remote_duties.attestation_committee_index,
                         attestation_committee_position |->
                             remote_duties.attestation_committee_position,
                         block_proposal_slots |-> remote_duties.block_proposal_slots,
                         aggregator_modulo |-> remote_duties.aggregator_modulo])]

\* The ValidatorSubscription built in update_epoch from the converted
\* `duties`, None when one of the `?` fields is absent.
validator_subscription(duties) ==
    IF \/ duties.duty.validator_index = None
       \/ duties.duty.attestation_committee_index = None
       \/ duties.duty.attestation_slot = None
    THEN None
    ELSE Some([validator_index |-> Unwrap(duties.duty.validator_index),
               attestation_committee_index |->
                   Unwrap(duties.duty.attestation_committee_index),
               slot |-> Unwrap(duties.duty.attestation_slot),
               is_aggregator |-> IsSome(duties.selection_proof)])

handle_remote_duty_err_subscribes(store, epoch, remote_duties) ==
    LET conv == try_into(remote_duties)
        r == insert(store, epoch, conv.dp)
    IN  IF ~conv.ok
        THEN [store |-> store, converted |-> FALSE, subscription |-> None]
        ELSE [store |-> r.store, converted |-> TRUE, outcome |-> r.outcome,
              asked |-> r.asked, duty |-> conv.dp.duty,
              subscription |-> IF r.outcome = Err \/ is_subscription_candidate(r.outcome)
                               THEN validator_subscription(conv.dp)
                               ELSE None]

\* The closure update_epoch applies to each remote duty: convert, insert,
\* and return the subscription to collect, if any.
handle_remote_duty(store, epoch, remote_duties) ==
    LET conv == try_into(remote_duties)
        r == insert(store, epoch, conv.dp)
    IN  IF ~conv.ok
        THEN [store |-> store, converted |-> FALSE, subscription |-> None]
        ELSE IF r.outcome = Err
        THEN [store |-> r.store, converted |-> TRUE, outcome |-> Err,
              asked |-> r.asked, duty |-> conv.dp.duty, subscription |-> None]
        ELSE [store |-> r.store, converted |-> TRUE, outcome |-> r.outcome,
              asked |-> r.asked, duty |-> conv.dp.duty,
              subscription |-> IF is_subscription_candidate(r.outcome)
                               THEN validator_subscription(conv.dp)
                               ELSE None]

(***************************************************************************)
(* State                                                                   *)
(***************************************************************************)
VARIABLES
    store,    \* DutiesStore.store
    before,   \* the store before the last operation
    last,     \* the last operation: its arguments and its result
    inserts,  \* number of insert calls performed (store-level specification)
    pc,       \* position of the running update_epoch
    epoch_arg,               \* its `epoch`
    all_duties,              \* the part of get_duties' response not yet handled
    validator_subscriptions, \* the subscriptions collected so far
    subscribed,              \* the argument of its subscribe call, None if not called
    received,                \* number of remote duties returned by the beacon node
    phase,    \* position of the running do_update
    tick,     \* what the running (or last) do_update has read and done
    lost,     \* subscriptions handed to a subscribe call that failed
    allow_unsynced_beacon_node, \* DutiesService.allow_unsynced_beacon_node
    ticks,    \* number of do_update calls started
    polled,   \* the first response of get_duties (poll specification)
    exited,   \* the exit signal of start_update_service has been triggered
    lock,     \* the RwLock of DutiesStore: its writer and its readers
    task,     \* what each task is doing to the store (lock specification)
    committed \* the store as the completed operations leave it

store_vars == << store, before, last, inserts >>
update_vars == << pc, epoch_arg, all_duties, validator_subscriptions, subscribed, received >>
service_vars == << phase, tick, lost, allow_unsynced_beacon_node, ticks >>
extra_vars == << polled, exited, lock, task, committed >>
vars == << store, before, last, inserts, pc, epoch_arg, all_duties,
           validator_subscriptions, subscribed, received,
           phase, tick, lost, allow_unsynced_beacon_node, ticks,
           polled, exited, lock, task, committed >>

NoOp == [op |-> "none"]

\* The tasks that use the store at the same time: the do_update spawned at
\* start and the interval task.
Tasks == {"startup", "interval"}

\* Nobody holds the lock.
Unlocked == [writer |-> None, readers |-> {}]

\* No task is using the store.
AllIdle == [t \in Tasks |-> [pc |-> "idle"]]

\* The variables the poll, exit and lock specifications add, as they are
\* after construction.
ExtraInit ==
    /\ polled = None
    /\ exited = FALSE
    /\ lock = Unlocked
    /\ task = AllIdle
    /\ committed = EmptyMap

\* No do_update has run yet.
NoTick == [slot |-> None, store |-> EmptyMap, pruned |-> None, head |-> None,
           calls |-> << >>, results |-> << >>]

Init ==
    /\ store = EmptyMap
    /\ before = EmptyMap
    /\ last = NoOp
    /\ inserts = 0
    /\ pc = "idle"
    /\ epoch_arg = 0
    /\ all_duties = << >>
    /\ validator_subscriptions = << >>
    /\ subscribed = None
    /\ received = 0
    /\ phase = "idle"
    /\ tick = NoTick
    /\ lost = {}
    /\ allow_unsynced_beacon_node = FALSE
    /\ ticks = 0
    /\ ExtraInit

(***************************************************************************)
(* Store-level specification: any sequence of insert and prune calls.      *)
(***************************************************************************)
\* store.insert(epoch, duties, slots_per_epoch, validator_store)
Insert ==
    /\ inserts < MaxInserts
    /\ \E epoch \in Epochs : \E duty \in RemoteDuties(epoch) :
         LET r == insert(store, epoch, ToDutyAndProof(duty))
         IN  /\ store' = r.store
             /\ last' = [op |-> "insert", epoch |-> epoch, duty |-> duty,
                         outcome |-> r.outcome, asked |-> r.asked]
    /\ before' = store
    /\ inserts' = inserts + 1
    /\ UNCHANGED update_vars
    /\ UNCHANGED service_vars
    /\ UNCHANGED extra_vars

\* store.prune(prior_to)
Prune ==
    /\ \E prior_to \in 0 .. MaxEpoch + 1 :
         /\ store' = prune(store, prior_to)
         /\ last' = [op |-> "prune", prior_to |-> prior_to]
    /\ before' = store
    /\ UNCHANGED inserts
    /\ UNCHANGED update_vars
    /\ UNCHANGED service_vars
    /\ UNCHANGED extra_vars

Next == Insert \/ Prune

Spec == Init /\ [][Next]_vars

(***************************************************************************)
(* update_epoch specification: the service polls the beacon node for the   *)
(* duties of an epoch, inserts them and subscribes.                        *)
(***************************************************************************)
\* Sequences of at most n remote duties for `epoch`, no key twice.
RECURSIVE Responses(_, _)
Responses(epoch, n) ==
    IF n = 0 THEN {<< >>}
    ELSE LET shorter == Responses(epoch, n - 1)
         IN  shorter \cup
             {Append(r, d) : r \in {x \in shorter : Len(x) = n - 1},
                             d \in RemoteDutyBytes(epoch)}

DistinctKeys(response) ==
    \A i, j \in DOMAIN response :
        i # j => response[i].validator_pubkey # response[j].validator_pubkey

\* update_epoch(epoch) is called: get_duties(epoch, voting_pubkeys) is sent.
UpdateEpoch ==
    /\ pc = "idle"
    /\ \E epoch \in Epochs : epoch_arg' = epoch
    /\ pc' = "get_duties"
    /\ all_duties' = << >>
    /\ validator_subscriptions' = << >>
    /\ subscribed' = None
    /\ last' = [op |-> "update_epoch"]
    /\ UNCHANGED << store, before, inserts, received >>
    /\ UNCHANGED service_vars
    /\ UNCHANGED extra_vars

\* get_duties answers.
GetDutiesOk ==
    /\ pc = "get_duties"
    /\ \E response \in Responses(epoch_arg, MaxRemote - received) :
         /\ DistinctKeys(response)
         /\ all_duties' = response
         /\ received' = received + Len(response)
         /\ pc' = IF response = << >> THEN "subscribe" ELSE "insert"
    /\ UNCHANGED << store, before, last, inserts, epoch_arg,
                    validator_subscriptions, subscribed >>
    /\ UNCHANGED service_vars
    /\ UNCHANGED extra_vars

GetDutiesErr_drops_store ==
    /\ pc = "get_duties"
    /\ pc' = "idle"
    /\ last' = [op |-> "update_epoch_err"]
    /\ store' = EmptyMap
    /\ UNCHANGED << before, inserts, epoch_arg, all_duties,
                    validator_subscriptions, subscribed, received >>
    /\ UNCHANGED service_vars
    /\ UNCHANGED extra_vars

\* get_duties fails: update_epoch returns the error.
GetDutiesErr ==
    /\ pc = "get_duties"
    /\ pc' = "idle"
    /\ last' = [op |-> "update_epoch_err"]
    /\ UNCHANGED << store, before, inserts, epoch_arg, all_duties,
                    validator_subscriptions, subscribed, received >>
    /\ UNCHANGED service_vars
    /\ UNCHANGED extra_vars

\* The next remote duty is converted and inserted.
HandleRemoteDuty ==
    /\ pc = "insert"
    /\ LET r == handle_remote_duty(store, epoch_arg, Head(all_duties))
       IN  /\ store' = r.store
           /\ last' = IF r.converted
                       THEN [op |-> "insert", epoch |-> epoch_arg, duty |-> r.duty,
                             outcome |-> r.outcome, asked |-> r.asked,
                             subscription |-> r.subscription]
                       ELSE [op |-> "try_into_err"]
           /\ validator_subscriptions' =
                  IF r.subscription = None THEN validator_subscriptions
                  ELSE Append(validator_subscriptions, Unwrap(r.subscription))
    /\ before' = store
    /\ all_duties' = Tail(all_duties)
    /\ pc' = IF Tail(all_duties) = << >> THEN "subscribe" ELSE "insert"
    /\ UNCHANGED << inserts, epoch_arg, subscribed, received >>
    /\ UNCHANGED service_vars
    /\ UNCHANGED extra_vars

\* No subscription was collected: subscribe is not called.
SubscribeSkip ==
    /\ pc = "subscribe"
    /\ Len(validator_subscriptions) = 0
    /\ pc' = "idle"
    /\ UNCHANGED << store, before, last, inserts, epoch_arg, all_duties,
                    validator_subscriptions, subscribed, received >>
    /\ UNCHANGED service_vars
    /\ UNCHANGED extra_vars

\* A slip: subscribe is called with an empty list too.
Subscribe_even_if_empty ==
    /\ pc = "subscribe"
    /\ subscribed' = Some(validator_subscriptions)
    /\ \E answer \in {"Valid", "Unknown", "Invalid", "Err"} :
         last' = [op |-> "subscribe", answer |-> answer]
    /\ pc' = "idle"
    /\ UNCHANGED << store, before, inserts, epoch_arg, all_duties,
                    validator_subscriptions, received >>
    /\ UNCHANGED service_vars
    /\ UNCHANGED extra_vars

\* subscribe(validator_subscriptions) is called; it answers or fails.
Subscribe ==
    /\ pc = "subscribe"
    /\ Len(validator_subscriptions) # 0
    /\ subscribed' = Some(validator_subscriptions)
    /\ \E answer \in {"Valid", "Unknown", "Invalid", "Err"} :
         last' = [op |-> "subscribe", answer |-> answer]
    /\ pc' = "idle"
    /\ UNCHANGED << store, before, inserts, epoch_arg, all_duties,
                    validator_subscriptions, received >>
    /\ UNCHANGED service_vars
    /\ UNCHANGED extra_vars

NextUpdate ==
    \/ UpdateEpoch
    \/ GetDutiesOk
    \/ GetDutiesErr
    \/ HandleRemoteDuty
    \/ SubscribeSkip
    \/ Subscribe

SpecUpdate == Init /\ [][NextUpdate]_vars

(***************************************************************************)
(* Poll specification: the beacon node answers the first get_duties of a   *)
(* run with any response, and every later get_duties of the same epoch     *)
(* with the same response again.                                           *)
(***************************************************************************)
\* get_duties answers for the first time in the run.
FirstGetDuties ==
    /\ pc = "get_duties"
    /\ polled = None
    /\ \E response \in Responses(epoch_arg, MaxRemote) :
         /\ DistinctKeys(response)
         /\ all_duties' = response
         /\ received' = received + Len(response)
         /\ polled' = Some([epoch |-> epoch_arg, response |-> response,
                            again |-> FALSE])
         /\ pc' = IF response = << >> THEN "subscribe" ELSE "insert"
    /\ UNCHANGED << store, before, last, inserts, epoch_arg,
                    validator_subscriptions, subscribed >>
    /\ UNCHANGED service_vars
    /\ UNCHANGED << exited, lock, task, committed >>

\* get_duties answers with the duties it returned the first time.
RepeatGetDuties ==
    /\ pc = "get_duties"
    /\ polled # None
    /\ epoch_arg = Unwrap(polled).epoch
    /\ all_duties' = Unwrap(polled).response
    /\ polled' = Some([Unwrap(polled) EXCEPT !.again = TRUE])
    /\ pc' = IF Unwrap(polled).response = << >> THEN "subscribe" ELSE "insert"
    /\ UNCHANGED << store, before, last, inserts, epoch_arg,
                    validator_subscriptions, subscribed, received >>
    /\ UNCHANGED service_vars
    /\ UNCHANGED << exited, lock, task, committed >>

NextPoll ==
    \/ UpdateEpoch
    \/ FirstGetDuties
    \/ RepeatGetDuties
    \/ GetDutiesErr
    \/ HandleRemoteDuty
    \/ SubscribeSkip
    \/ Subscribe

SpecPoll == Init /\ [][NextPoll]_vars

(***************************************************************************)
(* do_update specification: the service ticks; each tick reads the slot    *)
(* clock, prunes at the first slot of an epoch, asks the beacon node for   *)
(* its head and, unless the node is too far behind, updates the current    *)
(* and the next epoch.                                                     *)
(***************************************************************************)
\* The epochs the slot clock shows in a run: the first two, and the first
\* one whose pruning reaches past epoch 0.
ClockEpochs == {0, 1, PRUNE_DEPTH + 1}
\* The slots the slot clock shows: the first slot of each of those epochs,
\* and the second slot of epoch 0.
ClockSlots == {StartSlot(e) : e \in ClockEpochs} \cup {StartSlot(0) + 1}
\* The head epochs the beacon node reports at `current_epoch`: the current
\* epoch, one behind and two behind.
HeadEpochs(current_epoch) == {h \in 0 .. current_epoch : h + 2 >= current_epoch}

\* Epoch - u64 of the types crate: the difference, saturating at zero.
epoch_sub(epoch, n) == IF epoch >= n THEN epoch - n ELSE 0

is_epoch_end(slot) == slot % SlotsPerEpoch = SlotsPerEpoch - 1

\* slot % E::slots_per_epoch() == 0
is_epoch_start(slot) == slot % SlotsPerEpoch = 0

prune_below_current(epoch) == epoch

prune_below_deeper(epoch) == epoch_sub(epoch, PRUNE_DEPTH + 1)

\* let prune_below = epoch - PRUNE_DEPTH
prune_below(epoch) == epoch_sub(epoch, PRUNE_DEPTH)

not_synced_strict(beacon_head_epoch, current_epoch, allow_unsynced) ==
    beacon_head_epoch < current_epoch /\ ~allow_unsynced

not_synced_flag_inverted(beacon_head_epoch, current_epoch, allow_unsynced) ==
    beacon_head_epoch + 1 < current_epoch /\ allow_unsynced

\* The condition under which do_update gives up on the beacon node.
not_synced(beacon_head_epoch, current_epoch, allow_unsynced) ==
    beacon_head_epoch + 1 < current_epoch /\ ~allow_unsynced

and_then_runs(failed) == ~failed

\* The result of update_epoch(current_epoch) does not decide whether
\* update_epoch(current_epoch + 1) runs: the two are chained with `then`.
then_runs(failed) == TRUE

update_returned_early(position) == position \in {"idle", "subscribe"}

\* The future of update_epoch has resolved: `then` runs its closure.
update_returned(position) == position = "idle"

\* The duties the beacon node returns for `epoch` in a run of the service:
\* the plain duty of validator 1, and the same moved to the next slot.
BeaconDuties(epoch) ==
    {BaseDuty(1, epoch),
     [BaseDuty(1, epoch) EXCEPT !.attestation_slot = Some(StartSlot(epoch) + 1)]}

\* Number of remote duties the beacon node returns in one run of the
\* service: one for an epoch long past, and MaxRemote for the epochs polled
\* after it.
BeaconBudget == MaxRemote + 1

RECURSIVE BeaconResponses(_, _)
BeaconResponses(epoch, n) ==
    IF n = 0 THEN {<< >>}
    ELSE LET shorter == BeaconResponses(epoch, n - 1)
         IN  shorter \cup
             {Append(r, d) : r \in {x \in shorter : Len(x) = n - 1},
                             d \in BeaconDuties(epoch)}

Range(seq) == {seq[i] : i \in DOMAIN seq}

TickEpoch == EpochOf(Unwrap(tick.slot))

\* The update_epoch that just returned failed: get_duties or subscribe failed.
update_failed ==
    \/ last.op = "update_epoch_err"
    \/ last.op = "subscribe" /\ last.answer = "Err"

\* The subscriptions lost so far, once the update_epoch that just returned
\* is accounted for.
LostAfterUpdate ==
    IF subscribed = None THEN lost
    ELSE IF update_failed THEN lost \cup Range(Unwrap(subscribed))
    ELSE lost \ Range(Unwrap(subscribed))

InitService ==
    /\ store = EmptyMap
    /\ before = EmptyMap
    /\ last = NoOp
    /\ inserts = 0
    /\ pc = "idle"
    /\ epoch_arg = 0
    /\ all_duties = << >>
    /\ validator_subscriptions = << >>
    /\ subscribed = None
    /\ received = 0
    /\ phase = "idle"
    /\ tick = NoTick
    /\ lost = {}
    /\ allow_unsynced_beacon_node \in BOOLEAN
    /\ ticks = 0
    /\ ExtraInit

\* A slip: without a clock reading, get_head is sent all the same.
ClockErr_goes_on ==
    /\ phase = "idle"
    /\ ticks < MaxTicks
    /\ ticks' = ticks + 1
    /\ tick' = [NoTick EXCEPT !.store = store, !.slot = Some(0)]
    /\ last' = [op |-> "clock_err"]
    /\ phase' = "get_head"
    /\ UNCHANGED << store, before, inserts, lost, allow_unsynced_beacon_node >>
    /\ UNCHANGED update_vars
    /\ UNCHANGED extra_vars

\* do_update is called and slot_clock.now() is None: nothing more happens.
ClockErr ==
    /\ phase = "idle"
    /\ ticks < MaxTicks
    /\ ticks' = ticks + 1
    /\ tick' = [NoTick EXCEPT !.store = store]
    /\ last' = [op |-> "clock_err"]
    /\ UNCHANGED << store, before, inserts, phase, lost, allow_unsynced_beacon_node >>
    /\ UNCHANGED update_vars
    /\ UNCHANGED extra_vars

\* do_update is called and slot_clock.now() is Some(slot): the store is
\* pruned if the slot is the first of its epoch, and get_head is sent.
Tick ==
    /\ phase = "idle"
    /\ ticks < MaxTicks
    /\ ticks' = ticks + 1
    /\ \E slot \in ClockSlots :
         LET epoch == EpochOf(slot)
         IN  /\ store' = IF is_epoch_start(slot)
                         THEN prune(store, prune_below(epoch))
                         ELSE store
             /\ tick' = [NoTick EXCEPT
                            !.slot = Some(slot),
                            !.store = store,
                            !.pruned = IF is_epoch_start(slot)
                                       THEN Some(prune_below(epoch))
                                       ELSE None]
    /\ phase' = "get_head"
    /\ last' = [op |-> "do_update"]
    /\ UNCHANGED << before, inserts, lost, allow_unsynced_beacon_node >>
    /\ UNCHANGED update_vars
    /\ UNCHANGED extra_vars

\* A slip: without a head, update_epoch(current_epoch) is called all the same.
GetHeadErr_goes_on ==
    /\ phase = "get_head"
    /\ phase' = "first"
    /\ pc' = "get_duties"
    /\ epoch_arg' = TickEpoch
    /\ last' = [op |-> "get_head_err"]
    /\ UNCHANGED << store, before, inserts, tick, lost,
                    allow_unsynced_beacon_node, ticks >>
    /\ UNCHANGED << all_duties, validator_subscriptions, subscribed, received >>
    /\ UNCHANGED extra_vars

\* get_head fails: do_update ends.
GetHeadErr ==
    /\ phase = "get_head"
    /\ phase' = "idle"
    /\ last' = [op |-> "get_head_err"]
    /\ UNCHANGED << store, before, inserts, tick, lost,
                    allow_unsynced_beacon_node, ticks >>
    /\ UNCHANGED update_vars
    /\ UNCHANGED extra_vars

\* update_epoch(epoch) is called from do_update: get_duties is sent.
CallUpdateEpoch(epoch) ==
    /\ pc' = "get_duties"
    /\ epoch_arg' = epoch
    /\ all_duties' = << >>
    /\ validator_subscriptions' = << >>
    /\ subscribed' = None
    /\ last' = [op |-> "update_epoch"]

\* get_head answers: do_update ends if the node is not synced, and calls
\* update_epoch(current_epoch) otherwise.
GetHeadOk ==
    /\ phase = "get_head"
    /\ \E beacon_head_epoch \in HeadEpochs(TickEpoch) :
         /\ IF not_synced(beacon_head_epoch, TickEpoch, allow_unsynced_beacon_node)
            THEN /\ phase' = "idle"
                 /\ tick' = [tick EXCEPT !.head = Some(beacon_head_epoch)]
                 /\ last' = [op |-> "not_synced"]
                 /\ UNCHANGED update_vars
            ELSE /\ phase' = "first"
                 /\ tick' = [tick EXCEPT !.head = Some(beacon_head_epoch),
                                         !.calls = << TickEpoch >>]
                 /\ CallUpdateEpoch(TickEpoch)
                 /\ UNCHANGED received
    /\ UNCHANGED << store, before, inserts, lost, allow_unsynced_beacon_node, ticks >>
    /\ UNCHANGED extra_vars

\* get_duties answers within a run of the service.
BeaconGetDutiesOk ==
    /\ pc = "get_duties"
    /\ \E response \in BeaconResponses(epoch_arg, BeaconBudget - received) :
         /\ DistinctKeys(response)
         /\ all_duties' = response
         /\ received' = received + Len(response)
         /\ pc' = IF response = << >> THEN "subscribe" ELSE "insert"
    /\ UNCHANGED << store, before, last, inserts, epoch_arg,
                    validator_subscriptions, subscribed >>
    /\ UNCHANGED service_vars
    /\ UNCHANGED extra_vars

\* update_epoch(current_epoch) has returned, with or without an error:
\* update_epoch(current_epoch + 1) is called.
SecondUpdate ==
    /\ phase = "first"
    /\ update_returned(pc)
    /\ then_runs(update_failed)
    /\ phase' = "second"
    /\ tick' = [tick EXCEPT
                   !.calls = Append(@, TickEpoch + 1),
                   !.results = Append(@, IF update_failed THEN "err" ELSE "ok")]
    /\ lost' = LostAfterUpdate
    /\ CallUpdateEpoch(TickEpoch + 1)
    /\ UNCHANGED << store, before, inserts, received,
                    allow_unsynced_beacon_node, ticks >>
    /\ UNCHANGED extra_vars

\* The last update_epoch of do_update has returned: do_update ends, and the
\* locals of its update_epoch calls are gone.
TickDone ==
    /\ \/ phase = "second"
       \/ phase = "first" /\ ~then_runs(update_failed)
    /\ update_returned(pc)
    /\ phase' = "idle"
    /\ tick' = [tick EXCEPT
                   !.results = Append(@, IF update_failed THEN "err" ELSE "ok")]
    /\ lost' = LostAfterUpdate
    /\ last' = [op |-> "done"]
    /\ before' = store
    /\ epoch_arg' = 0
    /\ validator_subscriptions' = << >>
    /\ subscribed' = None
    /\ pc' = "idle"
    /\ all_duties' = << >>
    /\ UNCHANGED << store, inserts, received, allow_unsynced_beacon_node, ticks >>
    /\ UNCHANGED extra_vars

NextService ==
    \/ ClockErr
    \/ Tick
    \/ GetHeadErr
    \/ GetHeadOk
    \/ BeaconGetDutiesOk
    \/ GetDutiesErr
    \/ HandleRemoteDuty
    \/ SubscribeSkip
    \/ Subscribe
    \/ SecondUpdate
    \/ TickDone

SpecService == InitService /\ [][NextService]_vars

(***************************************************************************)
(* Slot specification: the interval fires once per slot, from slot 0 on,   *)
(* and every do_update runs to its end before the next one starts.  The    *)
(* tick number `ticks` runs at slot `ticks`.                               *)
(***************************************************************************)
\* The last slot the service is followed to: the second slot of the first
\* epoch that lies more than PRUNE_DEPTH epochs after epoch 0.
LastSlot == StartSlot(PRUNE_DEPTH + 1) + 1

\* What get_duties returns for the one validator of a run of the service:
\* nothing, or one of its duties.
SlotResponses(epoch) == {<< >>} \cup {<< d >> : d \in BeaconDuties(epoch)}

\* The store after update_epoch(epoch) has handled `response`.
RECURSIVE update_epoch_store(_, _, _)
update_epoch_store(s, epoch, response) ==
    IF response = << >> THEN s
    ELSE update_epoch_store(handle_remote_duty(s, epoch, Head(response)).store,
                            epoch, Tail(response))

\* The store after the first closure of do_update at `slot`.
pruned_at(s, slot) ==
    IF is_epoch_start(slot) THEN prune(s, prune_below(EpochOf(slot))) ELSE s

\* The tick of the slot finds slot_clock.now() None.
SlotClockErr ==
    /\ ticks <= LastSlot
    /\ ticks' = ticks + 1
    /\ tick' = NoTick
    /\ last' = [op |-> "clock_err"]
    /\ UNCHANGED << store, before, inserts, phase, lost, allow_unsynced_beacon_node >>
    /\ UNCHANGED update_vars
    /\ UNCHANGED extra_vars

\* The tick of the slot prunes, and then get_head fails or shows a beacon
\* node that is not synced.
SlotNoUpdate ==
    /\ ticks <= LastSlot
    /\ ticks' = ticks + 1
    /\ store' = pruned_at(store, ticks)
    /\ \E head \in {None} \cup {Some(h) : h \in HeadEpochs(EpochOf(ticks))} :
         /\ head # None =>
                not_synced(Unwrap(head), EpochOf(ticks), allow_unsynced_beacon_node)
         /\ tick' = [NoTick EXCEPT !.slot = Some(ticks), !.head = head]
         /\ last' = [op |-> IF head = None THEN "get_head_err" ELSE "not_synced"]
    /\ UNCHANGED << before, inserts, phase, lost, allow_unsynced_beacon_node >>
    /\ UNCHANGED update_vars
    /\ UNCHANGED extra_vars

\* The tick of the slot prunes, finds the beacon node synced and runs
\* update_epoch for the epoch of the slot and for the next one.
SlotUpdate ==
    /\ ticks <= LastSlot
    /\ ticks' = ticks + 1
    /\ LET epoch == EpochOf(ticks)
       IN  /\ \E head \in HeadEpochs(epoch) :
                /\ ~not_synced(head, epoch, allow_unsynced_beacon_node)
                /\ tick' = [NoTick EXCEPT !.slot = Some(ticks),
                                          !.head = Some(head),
                                          !.calls = << epoch, epoch + 1 >>]
           /\ \E first \in SlotResponses(epoch) :
              \E second \in SlotResponses(epoch + 1) :
                store' = update_epoch_store(
                             update_epoch_store(pruned_at(store, ticks), epoch, first),
                             epoch + 1, second)
    /\ last' = [op |-> "done"]
    /\ UNCHANGED << before, inserts, phase, lost, allow_unsynced_beacon_node >>
    /\ UNCHANGED update_vars
    /\ UNCHANGED extra_vars

NextSlots == SlotClockErr \/ SlotNoUpdate \/ SlotUpdate

SpecSlots == InitService /\ [][NextSlots]_vars

(***************************************************************************)
(* Exit specification: the interval task of start_update_service runs      *)
(* inside `exit_fut.until(..)`, which resolves as soon as the exit signal  *)
(* has fired and then drops the stream of ticks, the running do_update     *)
(* included.                                                               *)
(***************************************************************************)
\* The interval task has returned NotReady: it waits for the next instant of
\* the interval, for the head or for the duties of an epoch.
suspended == phase \in {"idle", "get_head"} \/ pc = "get_duties"

\* The exit signal fires; the task learns of it where it is suspended.
Exit ==
    /\ ~exited
    /\ suspended
    /\ exited' = TRUE
    /\ UNCHANGED << polled, lock, task, committed >>
    /\ UNCHANGED store_vars
    /\ UNCHANGED update_vars
    /\ UNCHANGED service_vars

\* The task is polled as long as `until` has not resolved.
Running == ~exited /\ NextService

NextExit == Exit \/ Running

SpecExit == InitService /\ [][NextExit]_vars

(***************************************************************************)
(* Lock specification: two tasks call insert, prune and the queries of one *)
(* DutiesStore at the same time.  Every call takes the RwLock of the store *)
(* first; what it does under the lock happens in steps.                    *)
(***************************************************************************)
\* RwLock::read is granted while nobody writes.
can_read(l) == l.writer = None

\* A slip: the write lock is granted while others read.
can_write_beside_readers(l) == l.writer = None

\* RwLock::write is granted while nobody writes and nobody reads.
can_write(l) == l.writer = None /\ l.readers = {}

\* The duties the tasks insert: the base duty of every validator, and for
\* the first validator one that differs from it.
LockDuties(epoch) ==
    {BaseDuty(p, epoch) : p \in Pubkeys}
    \cup {[BaseDuty(1, epoch) EXCEPT !.attestation_committee_position = None]}

\* insert: `self.store.write()` returns the guard.
InsertBegin(t) ==
    /\ task[t].pc = "idle"
    /\ inserts < MaxInserts
    /\ can_write(lock)
    /\ \E epoch \in Epochs : \E duty \in LockDuties(epoch) :
         task' = [task EXCEPT ![t] = [pc |-> "insert", epoch |-> epoch,
                                      duties |-> ToDutyAndProof(duty)]]
    /\ lock' = [lock EXCEPT !.writer = Some(t)]
    /\ inserts' = inserts + 1
    /\ UNCHANGED << store, before, last, polled, exited, committed >>
    /\ UNCHANGED update_vars
    /\ UNCHANGED service_vars

\* insert: the body of the function changes the map behind the guard.
InsertWrite(t) ==
    /\ task[t].pc = "insert"
    /\ LET r == insert(store, task[t].epoch, task[t].duties)
       IN  /\ store' = r.store
           /\ last' = [op |-> "insert", epoch |-> task[t].epoch,
                       duty |-> task[t].duties.duty, outcome |-> r.outcome,
                       asked |-> r.asked]
    /\ before' = store
    /\ task' = [task EXCEPT ![t].pc = "inserted"]
    /\ UNCHANGED << inserts, polled, exited, lock, committed >>
    /\ UNCHANGED update_vars
    /\ UNCHANGED service_vars

\* insert returns: the guard is dropped.
InsertEnd(t) ==
    /\ task[t].pc = "inserted"
    /\ lock' = [lock EXCEPT !.writer = None]
    /\ committed' = insert(committed, task[t].epoch, task[t].duties).store
    /\ task' = [task EXCEPT ![t] = [pc |-> "idle"]]
    /\ UNCHANGED << store, before, last, inserts, polled, exited >>
    /\ UNCHANGED update_vars
    /\ UNCHANGED service_vars

\* prune: `self.store.write()` returns the guard, retain starts.
PruneBegin(t) ==
    /\ task[t].pc = "idle"
    /\ can_write(lock)
    /\ \E prior_to \in 0 .. MaxEpoch + 1 :
         task' = [task EXCEPT ![t] = [pc |-> "prune", prior_to |-> prior_to,
                                      todo |-> DOMAIN store]]
    /\ lock' = [lock EXCEPT !.writer = Some(t)]
    /\ UNCHANGED << store, before, last, inserts, polled, exited, committed >>
    /\ UNCHANGED update_vars
    /\ UNCHANGED service_vars

\* prune: retain visits one validator, drops its old epochs and, if none is
\* left, the validator.
PruneVisit(t) ==
    /\ task[t].pc = "prune"
    /\ \E p \in task[t].todo \cap DOMAIN store :
         LET validator_map == RetainEpochs(store[p], task[t].prior_to)
         IN  /\ store' = IF validator_map = EmptyMap
                         THEN [q \in DOMAIN store \ {p} |-> store[q]]
                         ELSE [store EXCEPT ![p] = validator_map]
             /\ task' = [task EXCEPT ![t].todo = task[t].todo \ {p}]
    /\ before' = store
    /\ UNCHANGED << last, inserts, polled, exited, lock, committed >>
    /\ UNCHANGED update_vars
    /\ UNCHANGED service_vars

\* prune: retain has visited every validator, the guard is dropped.
PruneEnd(t) ==
    /\ task[t].pc = "prune"
    /\ task[t].todo \cap DOMAIN store = {}
    /\ lock' = [lock EXCEPT !.writer = None]
    /\ committed' = prune(committed, task[t].prior_to)
    /\ task' = [task EXCEPT ![t] = [pc |-> "idle"]]
    /\ UNCHANGED << store, before, last, inserts, polled, exited >>
    /\ UNCHANGED update_vars
    /\ UNCHANGED service_vars

\* A query: `self.store.read()` returns the guard, the iteration starts on
\* the map as it is.
QueryBegin(t) ==
    /\ task[t].pc = "idle"
    /\ can_read(lock)
    /\ lock' = [lock EXCEPT !.readers = lock.readers \cup {t}]
    /\ task' = [task EXCEPT ![t] = [pc |-> "query", seen |-> store]]
    /\ UNCHANGED << store, before, last, inserts, polled, exited, committed >>
    /\ UNCHANGED update_vars
    /\ UNCHANGED service_vars

\* The query has collected its result: the guard is dropped.
QueryEnd(t) ==
    /\ task[t].pc = "query"
    /\ lock' = [lock EXCEPT !.readers = lock.readers \ {t}]
    /\ task' = [task EXCEPT ![t] = [pc |-> "idle"]]
    /\ UNCHANGED << store, before, last, inserts, polled, exited, committed >>
    /\ UNCHANGED update_vars
    /\ UNCHANGED service_vars

NextLocked ==
    \E t \in Tasks :
        \/ InsertBegin(t)
        \/ InsertWrite(t)
        \/ InsertEnd(t)
        \/ PruneBegin(t)
        \/ PruneVisit(t)
        \/ PruneEnd(t)
        \/ QueryBegin(t)
        \/ QueryEnd(t)

SpecLocked == Init /\ [][NextLocked]_vars

(***************************************************************************)
(* Properties of the DutiesStore                                           *)
(***************************************************************************)
LastInsert == last.op = "insert"
LastPubkey == last.duty.validator_pubkey
Stored(outcome) == outcome.tag \in {"NewValidator", "NewEpoch", "Replaced"}

\* The slots of `duty` all lie in `epoch` (written out from the data model).
InEpoch(duty, epoch) ==
    /\ \A s \in {duty.attestation_slot} \ {None} :
           StartSlot(epoch) <= Unwrap(s) /\ Unwrap(s) < StartSlot(epoch + 1)
    /\ \A i \in DOMAIN duty.block_proposal_slots :
           /\ StartSlot(epoch) <= duty.block_proposal_slots[i]
           /\ duty.block_proposal_slots[i] < StartSlot(epoch + 1)

HasEntry(s, pubkey, epoch) == pubkey \in DOMAIN s /\ epoch \in DOMAIN s[pubkey]

\* C1 (P1 / S3): every stored entry (pubkey, epoch, dp) has its
\* attestation_slot absent or in epoch and every block_proposal_slot in epoch.
C1_EpochConsistency ==
    \A p \in DOMAIN store : \A e \in DOMAIN store[p] : InEpoch(store[p][e].duty, e)

\* An entry that both attests and proposes is stored.
C1_Witness ==
    \E p \in DOMAIN store : \E e \in DOMAIN store[p] :
        /\ store[p][e].duty.attestation_slot # None
        /\ store[p][e].duty.block_proposal_slots # << >>

\* C2: an insert that does not fail returns Invalid iff the duty does not
\* match the epoch; otherwise Identical iff an entry at (pubkey, epoch) holds
\* an equal duty, Replaced iff it holds a different duty, NewEpoch iff the
\* pubkey is present without that epoch, NewValidator iff the pubkey is absent.
C2_Classification ==
    (LastInsert /\ last.outcome # Err) =>
        LET o == last.outcome.tag
            p == LastPubkey
            e == last.epoch
            ok == InEpoch(last.duty, e)
        IN  /\ (o = "Invalid") <=> ~ok
            /\ ok =>
                /\ (o = "Identical") <=>
                       (HasEntry(before, p, e) /\ before[p][e].duty = last.duty)
                /\ (o = "Replaced") <=>
                       (HasEntry(before, p, e) /\ before[p][e].duty # last.duty)
                /\ (o = "NewEpoch") <=> (p \in DOMAIN before /\ e \notin DOMAIN before[p])
                /\ (o = "NewValidator") <=> (p \notin DOMAIN before)

\* A known validator received the duties of a further epoch.
C2_Witness ==
    /\ LastInsert
    /\ last.outcome = NewEpoch
    /\ LastPubkey \in DOMAIN before

\* C3: an insert whose duty does not match the epoch returns Invalid and
\* leaves the store as it was.
C3_InvalidRejected ==
    (LastInsert /\ ~InEpoch(last.duty, last.epoch)) =>
        (last.outcome = Invalid /\ store = before)

\* A duty of the wrong epoch arrives for a key that already has an entry.
C3_Witness ==
    /\ LastInsert
    /\ ~InEpoch(last.duty, last.epoch)
    /\ HasEntry(before, LastPubkey, last.epoch)

\* C4 (S2): after an insert that returns NewValidator, NewEpoch or Replaced
\* the entry at (pubkey, epoch) is the incoming duty with the selection proof
\* computed for it, whatever was stored there before.
C4_InsertStores ==
    (LastInsert /\ Stored(last.outcome)) =>
        /\ HasEntry(store, LastPubkey, last.epoch)
        /\ store[LastPubkey][last.epoch] =
               compute_selection_proof(ToDutyAndProof(last.duty)).dp

\* An aggregator's entry is replaced by a duty for which it is no aggregator.
C4_Witness ==
    /\ LastInsert
    /\ last.outcome.tag = "Replaced"
    /\ before[LastPubkey][last.epoch].selection_proof # None
    /\ store[LastPubkey][last.epoch].selection_proof = None

SameInsertAgain ==
    /\ LastInsert
    /\ last'.op = "insert"
    /\ last'.epoch = last.epoch
    /\ last'.duty = last.duty

\* C5 as stated (P3): for every duty, the second of two equal inserts in a
\* row returns Identical, leaves the store unchanged and does not ask the
\* validator store for a selection proof.
C5_IdempotentAnyDuty ==
    [][SameInsertAgain =>
          (last'.outcome = Identical /\ store' = store /\ ~last'.asked)]_vars

\* C5 amended: the same, for a duty that the first insert stored or found
\* stored (it returned NewValidator, NewEpoch, Replaced or Identical).
C5_Idempotent ==
    [][(SameInsertAgain /\ (Stored(last.outcome) \/ last.outcome = Identical)) =>
          (last'.outcome = Identical /\ store' = store /\ ~last'.asked)]_vars

\* The same duty was inserted twice in a row; the first insert stored it with
\* a selection proof obtained from the validator store.
C5_Witness ==
    /\ LastInsert
    /\ last.outcome = Identical
    /\ HasEntry(before, LastPubkey, last.epoch)
    /\ before[LastPubkey][last.epoch].selection_proof # None
    /\ inserts = 2

\* C6 (P4): two inserts in a row for different pubkeys leave the store, and
\* return the outcomes, that the two inserts in the other order produce.
C6_Commutative ==
    [][(LastInsert /\ last'.op = "insert"
          /\ last'.duty.validator_pubkey # last.duty.validator_pubkey) =>
          LET first == insert(before, last'.epoch, ToDutyAndProof(last'.duty))
              second == insert(first.store, last.epoch, ToDutyAndProof(last.duty))
          IN  /\ store' = second.store
              /\ last'.outcome = first.outcome
              /\ last.outcome = second.outcome]_vars

\* Two validators were inserted one after the other.
C6_Witness ==
    /\ LastInsert
    /\ last.outcome = NewValidator
    /\ DOMAIN before # {}
    /\ Cardinality(DOMAIN store) = 2

\* C7 (P2 / S1): right after prune(prior_to) no entry of an epoch below
\* prior_to remains and no pubkey is left with an empty inner mapping.
C7_PruneSound ==
    (last.op = "prune") =>
        /\ \A p \in DOMAIN store : \A e \in DOMAIN store[p] : e >= last.prior_to
        /\ \A p \in DOMAIN store : DOMAIN store[p] # {}
        /\ \A p \in DOMAIN before :
               (\A e \in DOMAIN before[p] : e < last.prior_to) => p \notin DOMAIN store

\* A prune removed one validator altogether and kept another.
C7_Witness ==
    /\ last.op = "prune"
    /\ DOMAIN before \ DOMAIN store # {}
    /\ DOMAIN store # {}

\* C8: the flag of a Replaced outcome is true iff aggregator_modulo,
\* attestation_slot, validator_index and attestation_committee_index are equal
\* in the new and the old duty, so only when they differ in
\* attestation_committee_position or block_proposal_slots alone.
C8_ShouldResubscribe ==
    (LastInsert /\ last.outcome.tag = "Replaced") =>
        LET new == last.duty
            old == before[LastPubkey][last.epoch].duty
        IN  /\ last.outcome.should_resubscribe <=>
                   /\ new.aggregator_modulo = old.aggregator_modulo
                   /\ new.attestation_slot = old.attestation_slot
                   /\ new.validator_index = old.validator_index
                   /\ new.attestation_committee_index = old.attestation_committee_index
            /\ last.outcome.should_resubscribe =>
                   \/ new.attestation_committee_position # old.attestation_committee_position
                   \/ new.block_proposal_slots # old.block_proposal_slots

\* A replacement that changes the committee position alone.
C8_Witness ==
    /\ LastInsert
    /\ last.outcome = Replaced(TRUE)
    /\ last.duty.block_proposal_slots = before[LastPubkey][last.epoch].duty.block_proposal_slots

(***************************************************************************)
(* Properties of update_epoch                                              *)
(***************************************************************************)
SubscriptionFieldsPresent(duty) ==
    /\ duty.validator_index # None
    /\ duty.attestation_committee_index # None
    /\ duty.attestation_slot # None

\* C9 (P5): handling a remote duty appends a ValidatorSubscription (one, for
\* that duty) iff its insert returned NewValidator, NewEpoch or
\* Replaced{should_resubscribe = true} and the duty has validator_index,
\* attestation_committee_index and attestation_slot; otherwise the list of
\* subscriptions is left as it is.
C9_SubscriptionPredicate ==
    [][pc = "insert" =>
          LET emit == /\ last'.op = "insert"
                      /\ last'.outcome \in {NewValidator, NewEpoch, Replaced(TRUE)}
                      /\ SubscriptionFieldsPresent(last'.duty)
              n == Len(validator_subscriptions)
          IN  IF emit
              THEN /\ Len(validator_subscriptions') = n + 1
                   /\ SubSeq(validator_subscriptions', 1, n) = validator_subscriptions
                   /\ validator_subscriptions'[n + 1].validator_index =
                          Unwrap(last'.duty.validator_index)
                   /\ validator_subscriptions'[n + 1].attestation_committee_index =
                          Unwrap(last'.duty.attestation_committee_index)
                   /\ validator_subscriptions'[n + 1].slot =
                          Unwrap(last'.duty.attestation_slot)
              ELSE validator_subscriptions' = validator_subscriptions]_vars

\* A replacement that keeps the subscription fields emitted a subscription,
\* after another remote duty of the same response emitted none.
C9_Witness ==
    /\ LastInsert
    /\ last.outcome = Replaced(TRUE)
    /\ validator_subscriptions = << Unwrap(last.subscription) >>
    /\ received = MaxRemote

\* C10: when the duty stored for a validator and epoch comes back with
\* another attestation_slot of the same epoch, insert returns
\* Replaced{should_resubscribe = false} and a subscription for the validator
\* is collected for the subscribe call of that update_epoch.
C10_ReorgResubscribes ==
    (/\ LastInsert
     /\ HasEntry(before, LastPubkey, last.epoch)
     /\ last.duty.attestation_slot # None
     /\ before[LastPubkey][last.epoch].duty.attestation_slot # None
     /\ last.duty.attestation_slot # before[LastPubkey][last.epoch].duty.attestation_slot
     /\ last.duty = [before[LastPubkey][last.epoch].duty EXCEPT
                        !.attestation_slot = last.duty.attestation_slot]
     /\ InEpoch(last.duty, last.epoch)) =>
        /\ last.outcome = Replaced(FALSE)
        /\ last.subscription # None
        /\ \E i \in DOMAIN validator_subscriptions :
               validator_subscriptions[i] = Unwrap(last.subscription)

\* C11: every ValidatorSubscription that update_epoch emits carries
\* is_aggregator equal to selection_proof.is_some() of the DutyAndProof that
\* insert stored for that validator and epoch.
C11_AggregatorFlag ==
    (LastInsert /\ last.subscription # None) =>
        /\ HasEntry(store, LastPubkey, last.epoch)
        /\ Unwrap(last.subscription).is_aggregator =
               IsSome(store[LastPubkey][last.epoch].selection_proof)

(***************************************************************************)
(* Properties of do_update                                                 *)
(***************************************************************************)
\* The subscription of `duty` was handed to a subscribe call that failed
\* and to none that succeeded since.
SubscriptionLost(duty) ==
    /\ SubscriptionFieldsPresent(duty)
    /\ \E l \in lost :
         /\ l.validator_index = Unwrap(duty.validator_index)
         /\ l.attestation_committee_index = Unwrap(duty.attestation_committee_index)
         /\ l.slot = Unwrap(duty.attestation_slot)

\* C12: when a subscribe call failed, a later tick in which the beacon node
\* returns the same duty issues the lost subscription again: handling the
\* duty collects its subscription for the subscribe call of that tick.
C12_LostSubscriptionReissued ==
    (LastInsert /\ phase # "idle" /\ SubscriptionLost(last.duty)) =>
        /\ last.subscription # None
        /\ \E i \in DOMAIN validator_subscriptions :
               validator_subscriptions[i] = Unwrap(last.subscription)

\* The tick read the clock, fetched the head and found the node too far
\* behind (written out from the requirement on the service).
HeadFetched == tick.slot # None /\ tick.head # None
TooFarBehind ==
    /\ HeadFetched
    /\ Unwrap(tick.head) + 1 < TickEpoch
    /\ allow_unsynced_beacon_node = FALSE

\* C13: in a tick whose head fetch succeeds, update_epoch is performed iff
\* not (head_epoch + 1 < current_epoch and allow_unsynced_beacon_node is
\* false): a head one epoch behind is tolerated, and with the flag set the
\* tick always proceeds.
C13_UnsyncedGate ==
    HeadFetched =>
        /\ (tick.calls # << >>) <=> ~TooFarBehind
        /\ Unwrap(tick.head) + 1 >= TickEpoch => tick.calls # << >>
        /\ allow_unsynced_beacon_node => tick.calls # << >>
        /\ tick.calls = << >> => phase = "idle" /\ pc = "idle"

\* The flag is not set, the head is exactly one epoch behind, and the tick
\* has stored a duty.
C13_Witness ==
    /\ HeadFetched
    /\ ~allow_unsynced_beacon_node
    /\ Unwrap(tick.head) + 1 = TickEpoch
    /\ tick.calls # << >>
    /\ store # tick.store

\* C14, as claimed: a tick that finds the node too far behind leaves the
\* store as it was before the tick, whatever the slot within the epoch.
C14_UnsyncedStoreUnchanged ==
    TooFarBehind => store = tick.store

\* The entries of `s` whose epoch is not below epoch - PRUNE_DEPTH.
KeptAt(s, epoch) ==
    LET kept(p) == {e \in DOMAIN s[p] : e + PRUNE_DEPTH >= epoch}
    IN  [p \in {q \in DOMAIN s : kept(q) # {}} |-> [e \in kept(p) |-> s[p][e]]]

\* C14, amended: a tick that finds the node too far behind performs no
\* insert; it leaves the store as it was before the tick if the slot is not
\* the first of its epoch, and without the entries of epochs below
\* current_epoch - PRUNE_DEPTH if it is.
C14_UnsyncedStoreOnlyPruned ==
    TooFarBehind =>
        store = IF Unwrap(tick.slot) % SlotsPerEpoch = 0
                THEN KeptAt(tick.store, TickEpoch)
                ELSE tick.store

\* A tick at the first slot of an epoch found the node too far behind after
\* its pruning had removed an entry.
C14_Witness ==
    /\ TooFarBehind
    /\ store # tick.store

\* C15: in a tick that passes the gate, update_epoch(epoch + 1) is invoked
\* after update_epoch(epoch), also when update_epoch(epoch) failed.
C15_SecondUpdateAlways ==
    /\ tick.calls # << >> =>
           /\ tick.calls \in {<< TickEpoch >>, << TickEpoch, TickEpoch + 1 >>}
           /\ Len(tick.results) >= 1 => tick.calls = << TickEpoch, TickEpoch + 1 >>
    /\ phase = "second" => epoch_arg = TickEpoch + 1 /\ Len(tick.calls) = 2
    /\ (phase = "idle" /\ tick.calls # << >>) => Len(tick.results) = 2

\* A tick is over whose update_epoch(epoch) failed and whose
\* update_epoch(epoch + 1) was invoked and stored a duty.
C15_Witness ==
    /\ phase = "idle"
    /\ Len(tick.results) = 2
    /\ tick.results[1] = "err"
    /\ tick.calls = << TickEpoch, TickEpoch + 1 >>
    /\ store # tick.store

\* C16: within a tick, update_epoch(e) completes (its inserts and its
\* subscribe call finished or failed) before update_epoch(e + 1) issues
\* get_duties; inserts and subscribe calls of the two never interleave.
C16_NoInterleaving ==
    [][/\ (pc' = "get_duties" /\ phase' = "second") =>
              /\ phase = "first"
              /\ pc = "idle"
              /\ all_duties = << >>
       /\ pc \in {"insert", "subscribe"} =>
              /\ phase \in {"first", "second"}
              /\ phase' = phase
              /\ epoch_arg = IF phase = "first" THEN TickEpoch ELSE TickEpoch + 1
       /\ (store' # store /\ phase # "idle") => pc = "insert"
       /\ (subscribed' # None) => pc = "subscribe"]_vars

\* update_epoch(e + 1) is inserting after update_epoch(e) has inserted and
\* subscribed.
C16_Witness ==
    /\ phase = "second"
    /\ pc = "insert"
    /\ tick.results = << "ok" >>
    /\ \E p \in DOMAIN store : TickEpoch \in DOMAIN store[p]
    /\ \A p \in DOMAIN tick.store : TickEpoch \notin DOMAIN tick.store[p]

\* C17: in every tick whose clock read succeeds, prune is invoked iff
\* slot mod slots_per_epoch = 0, with prior_to = epoch - PRUNE_DEPTH; at any
\* other slot the tick does not prune.
C17_PruneAtEpochStart ==
    tick.slot # None =>
        IF Unwrap(tick.slot) % SlotsPerEpoch = 0
        THEN /\ tick.pruned # None
             /\ TickEpoch >= PRUNE_DEPTH => Unwrap(tick.pruned) = TickEpoch - PRUNE_DEPTH
             /\ last.op = "do_update" => store = KeptAt(tick.store, TickEpoch)
        ELSE /\ tick.pruned = None
             /\ last.op = "do_update" => store = tick.store

\* A tick at the first slot of an epoch has just pruned an entry away.
C17_Witness ==
    /\ last.op = "do_update"
    /\ tick.pruned = Some(TickEpoch - PRUNE_DEPTH)
    /\ store # tick.store

C19_GetDutiesFailure ==
    [][(pc = "get_duties" /\ last'.op = "update_epoch_err") =>
          /\ pc' = "idle"
          /\ store' = store
          /\ subscribed' = None
          /\ validator_subscriptions' = << >>
          /\ all_duties' = << >>]_vars

\* get_duties has failed while the store held an entry.
C19_Witness ==
    /\ last.op = "update_epoch_err"
    /\ pc = "idle"
    /\ store # EmptyMap

\* The remote duty about to be handled fails: its pubkey bytes do not
\* convert, or its key is not in the validator store and its insert asks for
\* a selection proof.
EntryFails ==
    \/ Head(all_duties).validator_pubkey = BadPubkeyBytes
    \/ /\ Head(all_duties).validator_pubkey \notin voting_pubkeys
       /\ last'.op = "insert"
       /\ last'.asked

\* C20: a remote duty whose pubkey bytes fail to convert, or whose insert
\* fails because the validator store has no selection proof for its key, is
\* skipped: the store is unchanged (a previous entry is kept), no
\* subscription is collected for it, and the remaining duties of the
\* response are still handled and the collected subscriptions kept.
C20_EntryErrorConfined ==
    [][(pc = "insert" /\ EntryFails) =>
          /\ last'.op = "insert" => last'.outcome = Err
          /\ store' = store
          /\ validator_subscriptions' = validator_subscriptions
          /\ all_duties' = Tail(all_duties)
          /\ pc' = IF Len(all_duties) > 1 THEN "insert" ELSE "subscribe"]_vars

\* The insert of a duty of the unknown key has failed after another duty of
\* the same response was stored and its subscription collected.
C20_Witness ==
    /\ LastInsert
    /\ last.outcome = Err
    /\ LastPubkey = UnknownPubkey
    /\ store = before
    /\ store # EmptyMap
    /\ Len(validator_subscriptions) = 1
    /\ received = 2

\* C21: if slot_clock.now() returns None the tick is aborted before any
\* effect: no prune, no get_head, no get_duties, no subscribe, and the store
\* is unchanged.
C21_ClockUnavailable ==
    last.op = "clock_err" =>
        /\ store = tick.store
        /\ tick.pruned = None
        /\ tick.head = None
        /\ tick.calls = << >>
        /\ phase = "idle"
        /\ pc = "idle"
        /\ subscribed = None

\* A tick was aborted for want of a clock reading while the store held an
\* entry.
C21_Witness ==
    /\ last.op = "clock_err"
    /\ ticks > 1
    /\ store # EmptyMap

\* The head fetch of the tick has failed.
HeadFailed == tick.slot # None /\ tick.head = None /\ phase # "get_head"

\* C22: if get_head fails in a tick, neither update_epoch(epoch) nor
\* update_epoch(epoch + 1) is run in that tick: no get_duties, no insert, no
\* subscribe; the tick just ends.
C22_HeadFetchFailure ==
    HeadFailed =>
        /\ phase = "idle"
        /\ pc = "idle"
        /\ tick.calls = << >>
        /\ tick.results = << >>
        /\ subscribed = None
        /\ store = IF tick.pruned = None THEN tick.store
                   ELSE KeptAt(tick.store, TickEpoch)

\* get_head has failed in a tick that found an entry in the store.
C22_Witness ==
    /\ HeadFailed
    /\ last.op = "get_head_err"
    /\ store # EmptyMap

\* C23: subscribe is invoked in an update_epoch iff the list of collected
\* subscriptions is non-empty, at most once per update_epoch, with exactly
\* the subscriptions collected in that update_epoch, and only after all
\* inserts of the response are done; an empty list skips the call.
C23_SubscribeIffNonEmpty ==
    [][/\ pc = "subscribe" =>
              /\ pc' = "idle"
              /\ store' = store
              /\ subscribed' = IF validator_subscriptions = << >>
                               THEN None
                               ELSE Some(validator_subscriptions)
       /\ (subscribed' # None /\ subscribed' # subscribed) =>
              /\ pc = "subscribe"
              /\ all_duties = << >>
              /\ subscribed = None
       /\ (subscribed # None /\ subscribed' # subscribed) =>
              /\ pc = "idle"
              /\ pc' = "get_duties"
              /\ subscribed' = None]_vars

\* subscribe was called with the two subscriptions collected from a response
\* of two duties.
C23_Witness ==
    /\ last.op = "subscribe"
    /\ subscribed = Some(validator_subscriptions)
    /\ Len(validator_subscriptions) = 2
    /\ Cardinality(DOMAIN store) = 2

(***************************************************************************)
(* Properties of repeated polls                                            *)
(***************************************************************************)
\* The poll in progress is the first one of the run, or a repetition of it.
FirstPoll == polled # None /\ ~Unwrap(polled).again
RepeatedPoll == polled # None /\ Unwrap(polled).again

\* The remote duty converts, lies in `epoch`, and its selection proof, if it
\* needs one, can be computed.
WellFormed(d, epoch) ==
    /\ d.validator_pubkey # BadPubkeyBytes
    /\ InEpoch(d, epoch)
    /\ (d.aggregator_modulo # None /\ d.attestation_slot # None) =>
           /\ d.validator_pubkey \in voting_pubkeys
           /\ Unwrap(d.aggregator_modulo) # 0

AllWellFormed(duties) == \A i \in DOMAIN duties : WellFormed(duties[i], epoch_arg)

\* What the first and the repeated poll do with the remote duty they handle
\* next; with `only_well_formed`, for well-formed duties only.
PollStep(only_well_formed) ==
    LET ok(duties) == only_well_formed => AllWellFormed(duties)
    IN
    /\ (pc = "insert" /\ FirstPoll /\ ok(<< Head(all_duties) >>)) =>
           /\ last'.op = "insert"
           /\ last'.outcome = NewValidator
           /\ last'.subscription # None <=> SubscriptionFieldsPresent(last'.duty)
           /\ Len(validator_subscriptions') = Len(validator_subscriptions) +
                  (IF SubscriptionFieldsPresent(last'.duty) THEN 1 ELSE 0)
    /\ (pc = "insert" /\ RepeatedPoll /\ ok(Unwrap(polled).response)) =>
           /\ last'.op = "insert"
           /\ last'.outcome = Identical
           /\ store' = store
           /\ validator_subscriptions' = << >>
    /\ (pc = "subscribe" /\ RepeatedPoll /\ ok(Unwrap(polled).response)) =>
           /\ validator_subscriptions = << >>
           /\ subscribed' = None
           /\ store' = store

\* C24, as claimed: with an empty store, a poll returning duties of distinct
\* validators for one epoch yields NewValidator for each and one
\* subscription per duty that has validator_index,
\* attestation_committee_index and attestation_slot; a following poll
\* returning the same duties yields Identical for all of them, calls
\* subscribe not at all and leaves the store unchanged.
C24_FirstThenIdenticalAnyDuties == [][PollStep(FALSE)]_vars

\* C24, amended: the same, for polls whose duties all convert, lie in the
\* polled epoch and have a selection proof that can be computed.
C24_FirstThenIdentical == [][PollStep(TRUE)]_vars

\* The repeated poll has found both duties of the first poll Identical.
C24_Witness ==
    /\ RepeatedPoll
    /\ Len(Unwrap(polled).response) = 2
    /\ AllWellFormed(Unwrap(polled).response)
    /\ pc = "subscribe"
    /\ LastInsert
    /\ last.outcome = Identical
    /\ Cardinality(DOMAIN store) = 2

(***************************************************************************)
(* Properties of a tick at the start of an epoch                           *)
(***************************************************************************)
EpochsOf(s) == UNION {DOMAIN s[p] : p \in DOMAIN s}

\* A tick at the first slot of an epoch is over, both of its update_epoch
\* calls succeeded, and the store holds duties for its epoch and the next.
NewEpochTick ==
    /\ phase = "idle"
    /\ tick.slot # None
    /\ Unwrap(tick.slot) % SlotsPerEpoch = 0
    /\ tick.results = << "ok", "ok" >>
    /\ {TickEpoch, TickEpoch + 1} \subseteq EpochsOf(store)

\* C25, as claimed: after a tick at the first slot of epoch E in which the
\* beacon node returns duties for E and E + 1, the store contains entries
\* keyed by epochs E and E + 1 only, and every entry at an epoch below
\* E - PRUNE_DEPTH is gone.
C25_NewEpochOnlyCurrentAndNext ==
    NewEpochTick =>
        /\ EpochsOf(store) = {TickEpoch, TickEpoch + 1}
        /\ \A e \in EpochsOf(store) : e + PRUNE_DEPTH >= TickEpoch

\* C25, amended: after such a tick the store contains entries for E and
\* E + 1, every entry at an epoch below E - PRUNE_DEPTH is gone, and the
\* entries the store held before the tick at epochs from E - PRUNE_DEPTH on
\* are still there.
C25_NewEpoch ==
    NewEpochTick =>
        /\ \A e \in EpochsOf(store) : e + PRUNE_DEPTH >= TickEpoch
        /\ \A p \in DOMAIN tick.store : \A e \in DOMAIN tick.store[p] :
               e + PRUNE_DEPTH >= TickEpoch => HasEntry(store, p, e)

\* The tick at the start of epoch E has removed an entry of an epoch below
\* E - PRUNE_DEPTH and stored duties for E and for E + 1.
C25_Witness ==
    /\ NewEpochTick
    /\ \E e \in EpochsOf(tick.store) : e + PRUNE_DEPTH < TickEpoch
    /\ EpochsOf(tick.store) \cap {TickEpoch, TickEpoch + 1} = {}

(***************************************************************************)
(* Properties of an insert that arrives after the prune of its epoch       *)
(***************************************************************************)
\* The step inserts a duty the store accepts, for an epoch that the call
\* before it has pruned.
LateInsert ==
    /\ last.op = "prune"
    /\ last'.op = "insert"
    /\ last'.epoch < last.prior_to
    /\ WellFormed(last'.duty, last'.epoch)

\* C26: inserting duties of an epoch that a prune(prior_to) has just removed
\* is a legal no-op: it raises no error and leaves the store as the prune
\* left it, so that no entry with an epoch below prior_to reappears.
C26_LateInsertIsNoOp ==
    [][LateInsert =>
          /\ last'.outcome # Err
          /\ store' = store
          /\ \A e \in EpochsOf(store') : e >= last.prior_to]_vars

(***************************************************************************)
(* Properties of the selection proof                                       *)
(***************************************************************************)
\* The last insert has computed a selection proof and stored the result.
ProofComputed ==
    /\ last.op = "insert"
    /\ last.outcome.tag \in {"NewValidator", "NewEpoch", "Replaced"}

\* The duty names what a selection proof is made from.
NeedsProof(d) == d.aggregator_modulo # None /\ d.attestation_slot # None

\* The validator store holds the key of the duty, and the modulo divides.
ProofAvailable(d) ==
    /\ d.validator_pubkey \in voting_pubkeys
    /\ Unwrap(d.aggregator_modulo) # 0

\* C29 (P6): after a successful compute_selection_proof the selection proof
\* is Some iff the duty has aggregator_modulo and attestation_slot, the
\* validator store returned a proof for (pubkey, attestation_slot) and the
\* hash of the proof is 0 modulo aggregator_modulo; without the modulo or
\* the slot the call succeeds with None and the validator store is not
\* consulted; an unknown pubkey or a modulo error makes the call fail.
C29_AggregatorDetermination ==
    /\ ProofComputed =>
         LET d == last.duty
             stored == store[d.validator_pubkey][last.epoch]
         IN  /\ ~NeedsProof(d) => stored.selection_proof = None /\ ~last.asked
             /\ NeedsProof(d) =>
                  /\ last.asked
                  /\ ProofAvailable(d)
                  /\ stored.selection_proof # None <=>
                         (d.validator_pubkey + Unwrap(d.attestation_slot))
                             % Unwrap(d.aggregator_modulo) = 0
                  /\ stored.selection_proof # None =>
                         stored.selection_proof =
                             Some([signer |-> d.validator_pubkey,
                                   slot |-> Unwrap(d.attestation_slot)])
    /\ (last.op = "insert" /\ last.outcome = Err) =>
         /\ NeedsProof(last.duty)
         /\ ~ProofAvailable(last.duty)
         /\ last.asked
         /\ store = before

\* A validator that got its proof and is not an aggregator was stored.
C29_Witness ==
    /\ ProofComputed
    /\ NeedsProof(last.duty)
    /\ store[last.duty.validator_pubkey][last.epoch].selection_proof = None

(***************************************************************************)
(* DutiesStore queries                                                     *)
(***************************************************************************)
\* The orders in which the iterator of the HashMap may yield the validators.
IterationOrders(s) ==
    {order \in [1 .. Cardinality(DOMAIN s) -> DOMAIN s] :
        \A i, j \in DOMAIN order : i # j => order[i] # order[j]}

\* DutiesStore::block_producers: the validators are visited in `order`.
block_producers(s, order, slot) ==
    LET epoch == EpochOf(slot)
        proposes(p) ==
            /\ epoch \in DOMAIN s[p]
            /\ slot \in Range(s[p][epoch].duty.block_proposal_slots)
        kept == SelectSeq(order, proposes)
    IN  [i \in DOMAIN kept |-> s[kept[i]][epoch].duty.validator_pubkey]

\* A slip: every validator with duties in the epoch of the slot is returned.
attesters_of_epoch(s, order, slot) ==
    LET epoch == EpochOf(slot)
        attests(p) == epoch \in DOMAIN s[p]
        kept == SelectSeq(order, attests)
    IN  [i \in DOMAIN kept |-> s[kept[i]][epoch]]

\* DutiesStore::attesters: the validators are visited in `order`.
attesters(s, order, slot) ==
    LET epoch == EpochOf(slot)
        attests(p) ==
            /\ epoch \in DOMAIN s[p]
            /\ s[p][epoch].duty.attestation_slot = Some(slot)
        kept == SelectSeq(order, attests)
    IN  [i \in DOMAIN kept |-> s[kept[i]][epoch]]

(***************************************************************************)
(* Properties of the queries                                               *)
(***************************************************************************)
\* The slots a query is made for.
QuerySlots == 0 .. StartSlot(MaxEpoch + 1)

NoDuplicates(seq) == \A i, j \in DOMAIN seq : i # j => seq[i] # seq[j]

\* The stored entries, of any epoch, that attest at `slot`.
StoredAttesters(slot) ==
    UNION {{store[p][e] : e \in {x \in DOMAIN store[p] :
                               store[p][x].duty.attestation_slot = Some(slot)}} :
           p \in DOMAIN store}

\* The validators with a stored duty, of any epoch, that proposes at `slot`.
StoredProducers(slot) ==
    {p \in DOMAIN store :
        \E e \in DOMAIN store[p] :
            slot \in Range(store[p][e].duty.block_proposal_slots)}

\* C30: attesters(slot) returns exactly the stored entries whose
\* attestation_slot is slot, one per validator at most, and
\* block_producers(slot) exactly the pubkeys whose stored duty lists slot
\* among its block_proposal_slots, none of them twice, although both look
\* only at each validator's entry for the epoch of the slot.
C30_QueriesExact ==
    \A slot \in QuerySlots : \A order \in IterationOrders(store) :
        LET found == attesters(store, order, slot)
            producers == block_producers(store, order, slot)
        IN  /\ Range(found) = StoredAttesters(slot)
            /\ \A i, j \in DOMAIN found :
                   i # j => found[i].duty.validator_pubkey
                                # found[j].duty.validator_pubkey
            /\ Range(producers) = StoredProducers(slot)
            /\ NoDuplicates(producers)

\* Two validators attest at one slot and both propose a block at it.
C30_Witness ==
    \E slot \in QuerySlots : \E order \in IterationOrders(store) :
        /\ Len(attesters(store, order, slot)) = 2
        /\ Len(block_producers(store, order, slot)) = 2

(***************************************************************************)
(* Properties of the store under concurrent use                            *)
(***************************************************************************)
Writing(t) == task[t].pc \in {"insert", "inserted", "prune"}

\* C27: under any interleaving of the inserts, prunes and queries of the two
\* tasks, writers exclude each other and the readers, the store a query
\* iterates over is the result of the completed operations applied one after
\* the other and does not change under the query, and whenever no operation
\* is under way the store is that result.
C27_StoreAtomic ==
    /\ \A t \in Tasks : Writing(t) <=> lock.writer = Some(t)
    /\ \A t \in Tasks : task[t].pc = "query" <=> t \in lock.readers
    /\ lock.writer # None => lock.readers = {}
    /\ lock.writer = None => store = committed
    /\ \A t \in Tasks :
           task[t].pc = "query" => store = task[t].seen /\ store = committed

\* A prune has visited one of two validators and removed something, while
\* the other task can neither read nor write.
C27_Witness ==
    \E t \in Tasks :
        /\ task[t].pc = "prune"
        /\ task[t].todo \cap DOMAIN store # {}
        /\ store # committed
        /\ \A u \in Tasks \ {t} : task[u].pc = "idle"
        /\ ~can_read(lock)

(***************************************************************************)
(* Properties of the exit signal                                           *)
(***************************************************************************)
\* The interval task takes no further step.
TaskStopped == ~ENABLED << NextExit >>_vars

\* C28: once the exit signal has been triggered the periodic task stops: no
\* new tick is started, and the tick in flight finishes, so that the stopped
\* task leaves no do_update half-way.
C28_Cancellation ==
    /\ [][exited => ticks' = ticks]_vars
    /\ []((exited /\ TaskStopped) => phase = "idle")

(***************************************************************************)
(* Frame properties of the store                                           *)
(***************************************************************************)
\* The (pubkey, epoch) pairs with an entry in `s`.
Keys(s) == UNION {{<< p, e >> : e \in DOMAIN s[p]} : p \in DOMAIN s}

\* C33: prune(prior_to) leaves every entry of an epoch e >= prior_to in the
\* store with the duty and the selection proof it had; prune(0) changes
\* nothing in any store.
C33_PruneFrame ==
    (last.op = "prune") =>
        /\ \A k \in Keys(before) :
               k[2] >= last.prior_to =>
                   /\ k \in Keys(store)
                   /\ store[k[1]][k[2]] = before[k[1]][k[2]]
        /\ last.prior_to = 0 => store = before

\* A prune kept the entry of the epoch prior_to and removed an older one.
C33_Witness ==
    /\ last.op = "prune"
    /\ \E k \in Keys(store) : k[2] = last.prior_to
    /\ Keys(before) \ Keys(store) # {}

\* C34: an insert(epoch, dp) changes at most the entry at
\* (dp.duty.validator_pubkey, epoch), removes none and leaves every other
\* entry as it was; an entry leaves the store in a prune only.
C34_InsertFrame ==
    [][/\ last'.op = "insert" =>
            /\ Keys(store) \subseteq Keys(store')
            /\ Keys(store') \subseteq
                   Keys(store) \cup {<< last'.duty.validator_pubkey, last'.epoch >>}
            /\ \A k \in Keys(store) :
                   k # << last'.duty.validator_pubkey, last'.epoch >> =>
                       store'[k[1]][k[2]] = store[k[1]][k[2]]
       /\ Keys(store) \ Keys(store') # {} => last'.op = "prune"]_vars

\* An insert added a second epoch to a validator that had one.
C34_Witness ==
    /\ LastInsert
    /\ last.outcome = NewEpoch
    /\ Keys(before) # {}
    /\ Keys(store) = Keys(before) \cup {<< LastPubkey, last.epoch >>}
    /\ \A k \in Keys(before) : store[k[1]][k[2]] = before[k[1]][k[2]]

\* C36: after any sequence of inserts (failed and Invalid ones included) and
\* prunes, every pubkey of the outer mapping has at least one epoch entry.
C36_NoEmptyInnerMap ==
    \A p \in DOMAIN store : store[p] # EmptyMap

\* An insert for a validator the store does not hold has failed or was
\* Invalid, and the store holds another validator.
C36_Witness ==
    /\ LastInsert
    /\ last.outcome \in {Err, Invalid}
    /\ LastPubkey \notin DOMAIN store
    /\ store # EmptyMap

(***************************************************************************)
(* Properties of the service ticking once per slot                         *)
(***************************************************************************)
\* The epoch of the slot whose tick has run last.
CurrentEpoch == EpochOf(ticks - 1)

\* C35: while the service ticks once per slot, every inner mapping holds
\* epochs from CurrentEpoch - PRUNE_DEPTH to CurrentEpoch + 1 only: at most
\* PRUNE_DEPTH + 2 epochs per pubkey, none older than
\* CurrentEpoch - PRUNE_DEPTH.
C35_EpochWindow ==
    ticks > 0 =>
        \A p \in DOMAIN store :
            /\ \A e \in DOMAIN store[p] :
                   e + PRUNE_DEPTH >= CurrentEpoch /\ e <= CurrentEpoch + 1
            /\ Cardinality(DOMAIN store[p]) <= PRUNE_DEPTH + 2

(***************************************************************************)
(* Start specification: start_update_service spawns two tasks on the       *)
(* executor, the do_update run at once ("startup") and the loop over the   *)
(* interval inside `exit_fut.until(..)` ("interval").  Each task keeps the *)
(* locals of its do_update in `task`; the two share the store.             *)
(***************************************************************************)
\* The slots the clock shows: the first one, and the first slot of the
\* first epoch that prunes epoch 0.
StartSlots == {StartSlot(0), StartSlot(PRUNE_DEPTH + 1)}

\* What get_duties returns to a task for the one validator: nothing, or
\* the duty of the validator in the epoch.
StartResponses(epoch) == {<< >>, << BaseDuty(1, epoch) >>}

\* A task that was not spawned.
Unspawned == [pc |-> "unspawned", epoch |-> 0, n |-> 0,
              validator_subscriptions |-> << >>, last |-> None]

\* The update_epoch call that task `t` is waiting in, None if in none:
\* the number of the do_update of the task and the number of the call.
CallId(t) ==
    IF task[t].pc \in {"get_duties", "subscribe"}
    THEN Some(<< IF t = "interval" THEN ticks ELSE 0, task[t].n >>)
    ELSE None

\* The record of a task whose do_update is over: the spawned future is
\* gone, the loop waits for the next instant of the interval.
Over(t) ==
    [task[t] EXCEPT !.pc = IF t = "interval" THEN "waiting" ELSE "done",
                    !.n = 0, !.validator_subscriptions = << >>]

\* The record of a task whose update_epoch number n has returned:
\* update_epoch(current_epoch + 1) is called after the first, do_update is
\* over after the second.
Returned(t) ==
    IF task[t].n = 1
    THEN [task[t] EXCEPT !.pc = "get_duties", !.epoch = task[t].epoch + 1,
                         !.n = 2, !.validator_subscriptions = << >>]
    ELSE Over(t)

\* A slip: the loop starts a do_update without waiting for the one before.
interval_ready_while_running(r) == r.pc \notin {"unspawned", "ended"}

\* for_each polls the interval only when the future of the last do_update
\* has resolved.
interval_ready(r) == r.pc = "waiting"

\* The do_update of task `t` may start.
Ready(t) ==
    IF t = "interval"
    THEN interval_ready(task[t]) /\ ticks < MaxTicks /\ ~exited
    ELSE task[t].pc = "ready"

InitStart ==
    /\ store = EmptyMap
    /\ before = EmptyMap
    /\ last = NoOp
    /\ inserts = 0
    /\ pc = "idle"
    /\ epoch_arg = 0
    /\ all_duties = << >>
    /\ validator_subscriptions = << >>
    /\ subscribed = None
    /\ received = 0
    /\ phase = "idle"
    /\ tick = NoTick
    /\ lost = {}
    /\ allow_unsynced_beacon_node = FALSE
    /\ ticks = 0
    /\ polled = None
    /\ exited = FALSE
    /\ lock = Unlocked
    /\ task = [t \in Tasks |-> Unspawned]
    /\ committed = EmptyMap

\* A slip: the first do_update is spawned before the duration is looked at.
StartErr_spawns ==
    /\ last = NoOp
    /\ last' = [op |-> "start", result |-> "Err"]
    /\ task' = [task EXCEPT !["startup"].pc = "ready"]
    /\ UNCHANGED << store, before, inserts, polled, exited, lock, committed >>
    /\ UNCHANGED update_vars
    /\ UNCHANGED service_vars

\* start_update_service: duration_to_next_slot() is None.
StartErr ==
    /\ last = NoOp
    /\ last' = [op |-> "start", result |-> "Err"]
    /\ UNCHANGED << store, before, inserts, polled, exited, lock, task, committed >>
    /\ UNCHANGED update_vars
    /\ UNCHANGED service_vars

\* start_update_service: both tasks are spawned, the exit signal is returned.
StartOk ==
    /\ last = NoOp
    /\ last' = [op |-> "start", result |-> "Ok"]
    /\ task' = [t \in Tasks |->
                  [Unspawned EXCEPT !.pc = IF t = "interval" THEN "waiting"
                                           ELSE "ready"]]
    /\ UNCHANGED << store, before, inserts, polled, exited, lock, committed >>
    /\ UNCHANGED update_vars
    /\ UNCHANGED service_vars

\* A slip: the error of do_update reaches for_each and ends the loop.
BeginClockErr_fatal(t) ==
    /\ Ready(t)
    /\ task' = [task EXCEPT ![t] = [Over(t) EXCEPT !.pc = IF t = "interval"
                                                          THEN "ended" ELSE "done"]]
    /\ ticks' = IF t = "interval" THEN ticks + 1 ELSE ticks
    /\ UNCHANGED << phase, tick, lost, allow_unsynced_beacon_node >>
    /\ UNCHANGED << polled, exited, lock, committed >>
    /\ UNCHANGED store_vars
    /\ UNCHANGED update_vars

\* do_update starts in task `t` and slot_clock.now() is None.
BeginClockErr(t) ==
    /\ Ready(t)
    /\ task' = [task EXCEPT ![t] = Over(t)]
    /\ ticks' = IF t = "interval" THEN ticks + 1 ELSE ticks
    /\ UNCHANGED << phase, tick, lost, allow_unsynced_beacon_node >>
    /\ UNCHANGED << polled, exited, lock, committed >>
    /\ UNCHANGED store_vars
    /\ UNCHANGED update_vars

\* do_update starts in task `t`: it reads the slot, prunes at the first
\* slot of an epoch and sends get_head.
Begin(t) ==
    /\ Ready(t)
    /\ \E slot \in StartSlots :
         /\ tick.slot # None => slot >= Unwrap(tick.slot)
         /\ tick' = [tick EXCEPT !.slot = Some(slot)]
         /\ store' = pruned_at(store, slot)
         /\ task' = [task EXCEPT ![t] = [task[t] EXCEPT !.pc = "get_head",
                                                       !.epoch = EpochOf(slot)]]
    /\ ticks' = IF t = "interval" THEN ticks + 1 ELSE ticks
    /\ UNCHANGED << before, last, inserts, phase, lost, allow_unsynced_beacon_node >>
    /\ UNCHANGED << polled, exited, lock, committed >>
    /\ UNCHANGED update_vars

\* get_head fails, or shows a beacon node that is not synced: do_update of
\* task `t` is over.
HeadFail(t) ==
    /\ task[t].pc = "get_head"
    /\ \E head \in {None} \cup {Some(h) : h \in HeadEpochs(task[t].epoch)} :
         head # None =>
             not_synced(Unwrap(head), task[t].epoch, allow_unsynced_beacon_node)
    /\ task' = [task EXCEPT ![t] = Over(t)]
    /\ UNCHANGED << polled, exited, lock, committed >>
    /\ UNCHANGED store_vars
    /\ UNCHANGED update_vars
    /\ UNCHANGED service_vars

\* get_head shows a synced beacon node: update_epoch(current_epoch) is called.
HeadOk(t) ==
    /\ task[t].pc = "get_head"
    /\ \E head \in HeadEpochs(task[t].epoch) :
         ~not_synced(head, task[t].epoch, allow_unsynced_beacon_node)
    /\ task' = [task EXCEPT ![t] = [task[t] EXCEPT !.pc = "get_duties", !.n = 1]]
    /\ UNCHANGED << polled, exited, lock, committed >>
    /\ UNCHANGED store_vars
    /\ UNCHANGED update_vars
    /\ UNCHANGED service_vars

\* get_duties fails: the update_epoch of task `t` returns the error.
DutiesErr(t) ==
    /\ task[t].pc = "get_duties"
    /\ task' = [task EXCEPT ![t] = Returned(t)]
    /\ UNCHANGED << polled, exited, lock, committed >>
    /\ UNCHANGED store_vars
    /\ UNCHANGED update_vars
    /\ UNCHANGED service_vars

\* get_duties answers task `t`: the remote duty, if there is one, is
\* inserted; with a subscription collected subscribe is sent, without one
\* update_epoch returns.
DutiesOk(t) ==
    /\ task[t].pc = "get_duties"
    /\ \E response \in StartResponses(task[t].epoch) :
         IF response = << >>
         THEN /\ task' = [task EXCEPT ![t] = Returned(t)]
              /\ UNCHANGED store
         ELSE LET r == handle_remote_duty(store, task[t].epoch, Head(response))
                  inserted ==
                      Some([epoch |-> task[t].epoch, duty |-> r.duty,
                            outcome |-> r.outcome,
                            subscription |-> r.subscription,
                            peers |-> {CallId(u) : u \in Tasks \ {t}} \ {None}])
              IN  /\ store' = r.store
                  /\ task' = [task EXCEPT ![t] =
                        IF r.subscription = None
                        THEN [Returned(t) EXCEPT !.last = inserted]
                        ELSE [task[t] EXCEPT
                                 !.pc = "subscribe",
                                 !.last = inserted,
                                 !.validator_subscriptions = r.subscription]]
    /\ UNCHANGED << before, last, inserts >>
    /\ UNCHANGED << polled, exited, lock, committed >>
    /\ UNCHANGED update_vars
    /\ UNCHANGED service_vars

\* subscribe answers or fails: the update_epoch of task `t` returns.
SubscribeReturns(t) ==
    /\ task[t].pc = "subscribe"
    /\ task' = [task EXCEPT ![t] = Returned(t)]
    /\ UNCHANGED << polled, exited, lock, committed >>
    /\ UNCHANGED store_vars
    /\ UNCHANGED update_vars
    /\ UNCHANGED service_vars

\* The interval yields an error: for_each resolves, the loop is over.
TimerErr ==
    /\ task["interval"].pc = "waiting"
    /\ ~exited
    /\ task' = [task EXCEPT !["interval"].pc = "ended"]
    /\ UNCHANGED << polled, exited, lock, committed >>
    /\ UNCHANGED store_vars
    /\ UNCHANGED update_vars
    /\ UNCHANGED service_vars

\* The exit signal fires: `until` resolves and drops the loop where it is
\* suspended; the task spawned for the first do_update is not its concern.
ExitLoop ==
    /\ task["interval"].pc \in {"waiting", "get_head", "get_duties", "subscribe"}
    /\ ~exited
    /\ exited' = TRUE
    /\ task' = [task EXCEPT !["interval"].pc = "ended"]
    /\ UNCHANGED << polled, lock, committed >>
    /\ UNCHANGED store_vars
    /\ UNCHANGED update_vars
    /\ UNCHANGED service_vars

NextStart ==
    \/ StartErr
    \/ StartOk
    \/ TimerErr
    \/ ExitLoop
    \/ \E t \in Tasks :
          \/ BeginClockErr(t)
          \/ Begin(t)
          \/ HeadFail(t)
          \/ HeadOk(t)
          \/ DutiesErr(t)
          \/ DutiesOk(t)
          \/ SubscribeReturns(t)

SpecStart == InitStart /\ [][NextStart]_vars

(***************************************************************************)
(* Properties of the two tasks of the service                              *)
(***************************************************************************)
\* Task `t` is inside a do_update.
InDoUpdate(t) == task[t].pc \in {"get_head", "get_duties", "subscribe"}

\* C31: start_update_service fails and spawns nothing, so that no do_update
\* runs and no loop exists, when duration_to_next_slot() is None; otherwise
\* it returns the exit signal and has spawned the loop over the interval
\* and one do_update that runs at once, and once only.
C31_ServiceStart ==
    /\ []((last = NoOp \/ (last.op = "start" /\ last.result = "Err")) =>
              /\ \A t \in Tasks : task[t] = Unspawned
              /\ ticks = 0
              /\ store = EmptyMap)
    /\ []((last.op = "start" /\ last.result = "Ok") =>
              /\ task["startup"].pc # "unspawned"
              /\ task["interval"].pc # "unspawned")
    /\ [][/\ (last = NoOp /\ last' # NoOp /\ last'.result = "Ok") =>
                /\ task'["startup"].pc = "ready"
                /\ task'["interval"].pc = "waiting"
          /\ (last # NoOp /\ task["startup"].pc # "ready") =>
                task'["startup"].pc # "ready"
          /\ task["startup"].pc = "done" => task'["startup"].pc = "done"]_vars

\* The do_update of the start is over and the loop has run a tick of its own.
C31_Witness ==
    /\ last = [op |-> "start", result |-> "Ok"]
    /\ task["startup"].pc = "done"
    /\ ticks >= 1
    /\ store # EmptyMap

\* What C32 says of one step; with `timer_may_fail`, the loop may also end
\* between two ticks without the exit signal.
IndependentTicks(timer_may_fail) ==
    /\ (InDoUpdate("interval") /\ ~InDoUpdate("interval")') =>
           \/ task'["interval"].pc = "waiting"
           \/ ~exited /\ exited'
    /\ (task["interval"].pc # "ended" /\ task'["interval"].pc = "ended") =>
           \/ ~exited /\ exited'
           \/ timer_may_fail /\ task["interval"].pc = "waiting" /\ ticks' = ticks
    /\ (task'["interval"].pc = "waiting" /\ ~exited' /\ ticks' < MaxTicks) =>
           (ENABLED Begin("interval"))'

\* C32, as claimed: no failure inside a tick stops the loop, after a failed
\* tick the next tick of the interval runs do_update, and the loop ends
\* through the exit signal only.
C32_LoopEndsByExitOnly == [][IndependentTicks(FALSE)]_vars

\* C32, amended: no failure inside a tick stops the loop, after a failed
\* tick the next tick of the interval runs do_update, and the loop ends
\* through the exit signal or, between two ticks, through an error of the
\* interval timer only.
C32_TickIndependence == [][IndependentTicks(TRUE)]_vars

\* The first tick of the loop could not read the clock, nothing else has
\* run, and the loop waits for its next tick.
C32_Witness ==
    /\ ticks = 1
    /\ tick.slot = None
    /\ task["startup"].pc = "ready"
    /\ Ready("interval")

\* C37: a tick of the interval starts its do_update only when the do_update
\* of the tick before is over, so that the only do_update that runs beside
\* a tick of the interval is the one spawned at the start.
C37_TickSerialization ==
    [][ticks' # ticks => (ticks' = ticks + 1 /\ ~InDoUpdate("interval"))]_vars

\* The second tick of the interval runs beside the do_update of the start.
C37_Witness ==
    /\ ticks = 2
    /\ InDoUpdate("interval")
    /\ InDoUpdate("startup")

\* The step is an insert of task `u`.
Inserts(u) ==
    /\ task[u].pc = "get_duties"
    /\ task'[u].last # None
    /\ task'[u].last # task[u].last \/ task'[u].pc = "subscribe"

\* C38: when the update_epoch calls of the two tasks run at the same time
\* and insert the same duty for the same pubkey and epoch, and the first
\* insert found no entry (NewValidator or NewEpoch), the second one returns
\* Identical and emits no subscription.
C38_AtMostOnceCandidate ==
    [][\A u \in Tasks : \A t \in Tasks \ {u} :
          (/\ Inserts(u)
           /\ task[t].last # None
           /\ Unwrap(task[t].last).epoch = Unwrap(task'[u].last).epoch
           /\ Unwrap(task[t].last).duty = Unwrap(task'[u].last).duty
           /\ CallId(u) \in Unwrap(task[t].last).peers
           /\ Unwrap(task[t].last).outcome \in {NewValidator, NewEpoch}) =>
              /\ Unwrap(task'[u].last).outcome = Identical
              /\ Unwrap(task'[u].last).subscription = None]_vars

====
